---- MODULE Spec2Model ----
(***************************************************************************)
(* Model of the onboarding batch scripts: the provider reconciler          *)
(* (src/proveedores/subir_proveedores_mongodb.py), the invoice uploader    *)
(* and the DIAN archive extractor (src/causaciones/subir_facturas_mongodb  *)
(* .py, src/causaciones/renombrar_zips.py).                                *)
(*                                                                         *)
(* Text values are sequences of one-character strings, so that strip,     *)
(* digit filtering and suffix tests are computed and not assumed.         *)
(***************************************************************************)
EXTENDS Integers, Sequences, FiniteSets, TLC

\* ------------------------------------------------------------------------
\* Bounds of the model
\* ------------------------------------------------------------------------
MaxFilas == 2
MaxCorridas == 2

\* ------------------------------------------------------------------------
\* Values
\* ------------------------------------------------------------------------
\* a missing CSV cell: pandas yields the float nan, which is not a str
NaN == <<"NaN">>
\* Python None
None == <<"None">>
\* a key that a document does not have
Absent == <<"Absent">>

Digits == {"0", "1", "2", "3", "4", "5", "6", "7", "8", "9"}

\* the int 0
Cero == <<"int 0">>

IsStr(v) == v # NaN /\ v # None /\ v # Absent /\ v # Cero

\* Python truth value: nan is a non-zero float (true); None, 0 and "" are
\* false
Truthy(v) ==
    IF v = NaN THEN TRUE
    ELSE IF v = None \/ v = Cero THEN FALSE
    ELSE v # <<>>

\* pd.notna
NotNa(v) == v # NaN /\ v # None

SetMin(S) == CHOOSE x \in S : \A y \in S : x <= y
SetMax(S) == CHOOSE x \in S : \A y \in S : x >= y

\* str.strip()
Strip(s) ==
    LET idx == {i \in 1..Len(s) : s[i] # " "}
    IN  IF idx = {} THEN <<>> ELSE SubSeq(s, SetMin(idx), SetMax(idx))

\* str.isdigit is true of the ten ASCII digits and also of the digits of
\* other scripts and of superscript digits; the model carries one of them
DigitosStr == Digits \cup {"²"}

IsDigitChar(c) == c \in DigitosStr

OnlyDigits(s) == \A i \in 1..Len(s) : s[i] \in Digits

\* ------------------------------------------------------------------------
\* Provider reconciler: helpers
\* ------------------------------------------------------------------------
limpiar_campo(valor) == IF IsStr(valor) THEN Strip(valor) ELSE valor

limpiar_nit(nit) == IF IsStr(nit) THEN SelectSeq(nit, IsDigitChar) ELSE nit

\* Of the eight mapped columns the model carries COMPROBANTE -> voucher; the
\* other seven are copied by the same loop in the same way. The transaction
\* dict {voucher: v} is the pair <<"voucher", v>>.
extraer_datos_transaccion(row) ==
    IF NotNa(row.COMPROBANTE) /\ Strip(row.COMPROBANTE) # <<>>
    THEN <<"voucher", limpiar_campo(row.COMPROBANTE)>>
    ELSE None

\* the extra (non required) column COMPROBANTE, keyed "comprobante"
campos_extra(row) ==
    IF NotNa(row.COMPROBANTE) /\ Truthy(limpiar_campo(row.COMPROBANTE))
    THEN limpiar_campo(row.COMPROBANTE)
    ELSE Absent

\* position of the entry of a key in the insertion-ordered dict (0: none)
Posicion(dict, clave) ==
    IF \E i \in 1..Len(dict) : dict[i].id = clave
    THEN SetMin({i \in 1..Len(dict) : dict[i].id = clave})
    ELSE 0

Contiene(lista, x) == \E i \in 1..Len(lista) : lista[i] = x

ConsolidarPUC_Dup(puc, cuenta) == Append(puc, cuenta)

\* lines 201-202: append the account only if it is not in the list yet
ConsolidarPUC(puc, cuenta) ==
    IF ~Contiene(puc, cuenta) THEN Append(puc, cuenta) ELSE puc

\* lines 172-177: the row is rejected when a required field is falsy
FaltanCampos(cuenta, nit, nombre) ==
    ~Truthy(cuenta) \/ ~Truthy(nit) \/ ~Truthy(nombre)

\* lines 217-235: the document of a provider seen for the first time
NuevoProveedor(u, row) ==
    LET cuenta == limpiar_campo(row.CUENTA)
        tr == extraer_datos_transaccion(row)
    IN  [id |-> limpiar_nit(row.NIT),
         UID |-> u,
         description |-> limpiar_campo(row.DESCRIPCION),
         name |-> limpiar_campo(row.NOMBRE),
         PUC |-> <<cuenta>>,
         defaultPUC |-> cuenta,
         comprobante |-> campos_extra(row),
         transactions |-> IF tr = None THEN <<>> ELSE <<tr>>]

\* lines 198-211: consolidation of a row into the provider already in the dict
Consolidar(p, row) ==
    LET cuenta == limpiar_campo(row.CUENTA)
        tr == extraer_datos_transaccion(row)
        extra == campos_extra(row)
    IN  [p EXCEPT !.PUC = ConsolidarPUC(p.PUC, cuenta),
                  !.transactions = IF tr = None THEN @ ELSE Append(@, tr),
                  !.comprobante = IF extra = Absent THEN @ ELSE extra]

\* lines 164-236: the body of the row loop, on the dict
FilaEnDict(dict, u, row) ==
    LET nit == limpiar_nit(row.NIT)
        k == Posicion(dict, nit)
    IN  IF FaltanCampos(limpiar_campo(row.CUENTA), nit, limpiar_campo(row.NOMBRE))
        THEN dict
        ELSE IF k # 0
             THEN [dict EXCEPT ![k] = Consolidar(dict[k], row)]
             ELSE Append(dict, NuevoProveedor(u, row))

\* ------------------------------------------------------------------------
\* Document store: a collection is the sequence of its documents
\* ------------------------------------------------------------------------
Coincide(coll, u, id) == {i \in 1..Len(coll) : coll[i].UID = u /\ coll[i].id = id}

count_documents(coll, u) == Cardinality({i \in 1..Len(coll) : coll[i].UID = u})

delete_many_Todo(coll, u) == <<>>

\* delete_many({"UID": uid})
delete_many(coll, u) == SelectSeq(coll, LAMBDA d : d.UID # u)

\* replace_one(filtro, doc, upsert=True): the first matching document is
\* replaced as a whole; without a match the replacement is inserted.
\* modified is 0 when the stored document already equals the replacement.
replace_one(coll, u, doc) ==
    LET m == Coincide(coll, u, doc.id)
    IN  IF m = {}
        THEN [coll |-> Append(coll, doc), upserted |-> TRUE, modified |-> 0]
        ELSE LET i == SetMin(m)
             IN  [coll |-> [coll EXCEPT ![i] = doc],
                  upserted |-> FALSE,
                  modified |-> IF coll[i] = doc THEN 0 ELSE 1]

\* line 457: the final validation of subir_proveedores_a_mongodb
FalloCritico(cr, ac, n) == cr + ac = 0 /\ n > 0

\* ------------------------------------------------------------------------
\* Text helpers of the invoice scripts
\* ------------------------------------------------------------------------
\* the characters of the model in code point order
CharsOrden ==
    <<" ", "-", ".", "/",
      "0", "1", "2", "3", "4", "5", "6", "7", "8", "9",
      "A", "B", "C", "D", "E", "F", "G", "H", "I", "J", "K", "L", "M",
      "N", "O", "P", "Q", "R", "S", "T", "U", "V", "W", "X", "Y", "Z",
      "_",
      "a", "b", "c", "d", "e", "f", "g", "h", "i", "j", "k", "l", "m",
      "n", "o", "p", "q", "r", "s", "t", "u", "v", "w", "x", "y", "z",
      "²">>

Ord(c) == CHOOSE i \in 1..Len(CharsOrden) : CharsOrden[i] = c

Mayusculas == {CharsOrden[i] : i \in Ord("A")..Ord("Z")}

\* str.lower()
LowerChar(c) ==
    IF c \in Mayusculas THEN CharsOrden[Ord(c) + (Ord("a") - Ord("A"))] ELSE c

LowerStr(s) == [i \in 1..Len(s) |-> LowerChar(s[i])]

\* a in b, for str
IsSubstr(a, b) ==
    \E i \in 0..(Len(b) - Len(a)) : SubSeq(b, i + 1, i + Len(a)) = a

EndsWith(s, suf) ==
    Len(s) >= Len(suf) /\ SubSeq(s, Len(s) - Len(suf) + 1, Len(s)) = suf

\* s < t in the order of str
RECURSIVE StrLess(_, _)
StrLess(s, t) ==
    IF t = <<>> THEN FALSE
    ELSE IF s = <<>> THEN TRUE
    ELSE IF s[1] # t[1] THEN Ord(s[1]) < Ord(t[1])
    ELSE StrLess(Tail(s), Tail(t))

\* os.path.splitext(name)[0]: cut at the last dot, unless only dots come
\* before it
splitext_base(name) ==
    LET dots == {i \in 1..Len(name) : name[i] = "."}
    IN  IF dots = {} THEN name
        ELSE LET d == SetMax(dots)
             IN  IF \E i \in 1..(d - 1) : name[i] # "."
                 THEN SubSeq(name, 1, d - 1)
                 ELSE name

\* str(cell) of a spreadsheet cell
StrDe(celda) == IF celda = None THEN <<"N", "o", "n", "e">> ELSE celda

\* limpiar_nit of the invoice scripts: None counts as ''
limpiar_nit_factura(nit_raw) ==
    SelectSeq(IF Truthy(nit_raw) THEN nit_raw ELSE <<>>, IsDigitChar)

\* str.split(): the maximal runs of non-blank characters
RECURSIVE Split(_)
Split(s) ==
    IF s = <<>> THEN <<>>
    ELSE IF s[1] = " " THEN Split(Tail(s))
    ELSE LET blancos == {i \in 1..Len(s) : s[i] = " "}
             fin == IF blancos = {} THEN Len(s) ELSE SetMin(blancos) - 1
         IN  <<SubSeq(s, 1, fin)>> \o Split(SubSeq(s, fin + 1, Len(s)))

extraer_id_factura_Primero(descripcion_archivo) ==
    IF Strip(descripcion_archivo) = <<>> THEN Cero
    ELSE Split(Strip(descripcion_archivo))[1]

\* extraer_id_factura: 0 for a blank description, else the first token with
\* a digit, else None (the function falls off its end)
extraer_id_factura(descripcion_archivo) ==
    LET d == Strip(descripcion_archivo)
        partes == Split(d)
        con == {i \in 1..Len(partes) :
                  \E k \in 1..Len(partes[i]) : IsDigitChar(partes[i][k])}
    IN  IF d = <<>> THEN Cero
        ELSE IF con = {} THEN None
        ELSE partes[SetMin(con)]

\* ------------------------------------------------------------------------
\* difflib.SequenceMatcher and get_close_matches (no junk: the autojunk
\* heuristic needs 200 characters)
\* ------------------------------------------------------------------------
\* find_longest_match: the longest common block, of those the one that
\* starts earliest in a, of those the one that starts earliest in b
BloquesComunes(a, b) ==
    {blk \in (1..Len(a)) \X (1..Len(b)) \X (1..Len(a)) :
        /\ blk[1] + blk[3] - 1 <= Len(a)
        /\ blk[2] + blk[3] - 1 <= Len(b)
        /\ SubSeq(a, blk[1], blk[1] + blk[3] - 1)
             = SubSeq(b, blk[2], blk[2] + blk[3] - 1)}

MejorBloque(bs) ==
    CHOOSE x \in bs : \A y \in bs :
        \/ x[3] > y[3]
        \/ x[3] = y[3] /\ x[1] < y[1]
        \/ x[3] = y[3] /\ x[1] = y[1] /\ x[2] <= y[2]

find_longest_match(a, b) == MejorBloque(BloquesComunes(a, b))

\* the number of matched characters: get_matching_blocks takes the longest
\* block m and goes on to its left and to its right
RECURSIVE Coincidencias(_, _)
CoincidenciasCon(a, b, m) ==
    m[3]
    + Coincidencias(SubSeq(a, 1, m[1] - 1), SubSeq(b, 1, m[2] - 1))
    + Coincidencias(SubSeq(a, m[1] + m[3], Len(a)),
                    SubSeq(b, m[2] + m[3], Len(b)))

Coincidencias(a, b) ==
    IF BloquesComunes(a, b) = {} THEN 0
    ELSE CoincidenciasCon(a, b, find_longest_match(a, b))

\* ratio() = 2.0 * M / T as the pair <<2M, T>>
Ratio(a, b) == <<2 * Coincidencias(a, b), Len(a) + Len(b)>>

\* ratio >= cutoff with the default cutoff 0.6
PasaCorte(r) == IF r[2] = 0 THEN TRUE ELSE 10 * r[1] >= 6 * r[2]

RatioMenor(r, q) == r[1] * q[2] < q[1] * r[2]

\* the order of the result heap: by ratio, then by the string itself
Precede(ri, rj, si, sj) ==
    \/ RatioMenor(rj, ri)
    \/ ~RatioMenor(ri, rj) /\ ~StrLess(si, sj)

MejorCandidato(word, possibilities, ok) ==
    IF ok = {} THEN None
    ELSE possibilities[CHOOSE i \in ok : \A j \in ok :
            Precede(Ratio(possibilities[i], word),
                    Ratio(possibilities[j], word),
                    possibilities[i], possibilities[j])]

\* get_close_matches(word, possibilities, n=1): the candidate of highest
\* ratio, ties going to the greater string; None when no ratio passes
get_close_matches(word, possibilities) ==
    MejorCandidato(word, possibilities,
        {i \in 1..Len(possibilities) :
            PasaCorte(Ratio(possibilities[i], word))})

\* lines 68-73: the archive of the closest base name
ZipCercano(lista, bases_zip, zip_similar) ==
    IF zip_similar = None THEN None
    ELSE lista[SetMin({i \in 1..Len(lista) : bases_zip[i] = zip_similar})]

ElegirZip_Cercano(lista, bases_zip, id, cont) ==
    IF get_close_matches(id, bases_zip) # None
    THEN ZipCercano(lista, bases_zip, get_close_matches(id, bases_zip))
    ELSE IF cont # {} THEN lista[SetMin(cont)] ELSE None

\* lines 64-73: the first archive whose base name contains the id or is
\* contained in it, else the closest one
ElegirZip(lista, bases_zip, id, cont) ==
    IF cont # {} THEN lista[SetMin(cont)]
    ELSE ZipCercano(lista, bases_zip, get_close_matches(id, bases_zip))

BuscarEnBases(lista, bases_zip, id) ==
    ElegirZip(lista, bases_zip, id,
        {i \in 1..Len(lista) :
            IsSubstr(id, bases_zip[i]) \/ IsSubstr(bases_zip[i], id)})

BuscarEnLista(lista, id) ==
    BuscarEnBases(lista,
        [i \in 1..Len(lista) |-> Strip(LowerStr(splitext_base(lista[i])))],
        id)

\* lines 56-73
buscar_zip_similar(lista_zips, id_factura) ==
    IF ~Truthy(id_factura) \/ lista_zips = <<>> THEN None
    ELSE BuscarEnLista(SelectSeq(lista_zips, LAMBDA z : z # <<>>),
                       Strip(LowerStr(StrDe(id_factura))))

\* ------------------------------------------------------------------------
\* Inputs
\* ------------------------------------------------------------------------
UIDs == {"u1", "u2"}

\* os.listdir(CARPETA_CSV), the files ending in _Procesado.csv
Archivos == <<"a_Procesado.csv", "b_Procesado.csv">>

C5100 == <<"5", "1", "0", "0">>
C6200 == <<"6", "2", "0", "0">>

FilaBase ==
    [CUENTA |-> C5100, NIT |-> <<"9">>, NOMBRE |-> <<"A">>,
     DESCRIPCION |-> <<"d">>, COMPROBANTE |-> NaN]

\* rows of the CSV files: the base row and its one-cell variations
FilasCsv ==
    {FilaBase}
    \cup {[FilaBase EXCEPT !.NIT = n] :
            n \in {NaN, <<"-">>, <<"9", "-">>, <<"8">>, <<>>}}
    \cup {[FilaBase EXCEPT !.CUENTA = c] :
            c \in {<<>>, NaN, C6200, C5100 \o <<" ">>}}
    \cup {[FilaBase EXCEPT !.NOMBRE = <<>>],
          [FilaBase EXCEPT !.DESCRIPCION = <<>>],
          [FilaBase EXCEPT !.COMPROBANTE = <<"v">>],
          [FilaBase EXCEPT !.CUENTA = C6200, !.DESCRIPCION = <<"e">>,
                           !.NOMBRE = <<"B">>]}

SeqsHasta(S, n) == UNION {[1..k -> S] : k \in 0..n}

\* a CSV file: readable with all columns, lacking a required column, or one
\* that pd.read_csv cannot read
ArchivoCsv(estado, filas) == [estado |-> estado, filas |-> filas]

ArchivosRicos == {ArchivoCsv("ok", f) : f \in SeqsHasta(FilasCsv, MaxFilas)}

ArchivosCortos ==
    {ArchivoCsv("faltan", <<FilaBase>>), ArchivoCsv("ilegible", <<>>),
     ArchivoCsv("ok", <<>>), ArchivoCsv("ok", <<FilaBase>>),
     ArchivoCsv("ok", <<[FilaBase EXCEPT !.CUENTA = C6200]>>),
     ArchivoCsv("ok", <<[FilaBase EXCEPT !.NIT = NaN]>>)}

Lote(a, b) == (Archivos[1] :> a) @@ (Archivos[2] :> b)

LotesCsv == {Lote(a, b) : a \in ArchivosCortos, b \in ArchivosRicos}

\* ------------------------------------------------------------------------
\* State
\* ------------------------------------------------------------------------
VARIABLES
    csvs,                \* content of CARPETA_CSV: file name -> file
    providers,           \* the providers collection
    pc,                  \* position of subir_main
    uid,                 \* argument of subir_main
    limpiar_antes,       \* argument of subir_main
    archivo_i, fila_i,   \* procesar_archivos_csv: file and row being read
    proveedores_dict,    \* procesar_archivos_csv: insertion-ordered dict
    registros_fallidos,  \* procesar_archivos_csv: rejected rows
    proveedores,         \* list returned by procesar_archivos_csv
    doc_i,               \* subir_proveedores_a_mongodb: loop index
    creados, actualizados, errores, sin_cambios,
    salida,              \* how the running or last subir_main ended
    ultima, previa,      \* summaries of the last two finished runs
    mismo_lote,          \* this run reads the files the previous run read
    lote_usado,          \* the files the previous run read
    corridas,            \* number of runs of subir_main started
    vacio_inicio         \* the store held no document of uid when the
                         \* reconciliation of this run began

VARIABLES
    invoices,             \* the invoices collection
    facturas_dir,         \* content of data/facturas: name -> entry
    hoja,                 \* rows of the active sheet of the workbook
    pcF,                  \* position of procesar_y_subir_facturas
    uidF,                 \* its argument uid
    fila_k,               \* index of the row that the loop reads next
    facturas_procesadas,  \* set of reference tokens seen in this run
    contador_creadas,
    gestor_abierto,       \* the MongoDBManager connection is open
    salidaF,              \* how the running or last run ended
    corridasF,            \* number of runs started
    dian,                 \* the last call of extraer_descripcion_dian
    hubo_falla,           \* an insert_one of this run failed
    repite                \* this run reads the sheet, for the same uid, of
                          \* the previous run, which ended without failure

varsFact ==
    <<invoices, facturas_dir, hoja, pcF, uidF, fila_k, facturas_procesadas,
      contador_creadas, gestor_abierto, salidaF, corridasF, dian,
      hubo_falla, repite>>

varsProv ==
    <<csvs, providers, pc, uid, limpiar_antes, archivo_i, fila_i,
      proveedores_dict, registros_fallidos, proveedores, doc_i, creados,
      actualizados, errores, sin_cambios, salida, ultima, previa, mismo_lote,
      lote_usado, vacio_inicio, corridas>>

VARIABLES
    txt                   \* the last call of a text helper: its arguments
                          \* and what it returned

VARIABLES
    users,                \* the users collection
    modules,              \* the modules collection
    integrations,         \* the integrations collection
    client_puc,           \* the client_puc collection
    usr,                  \* the last call of a user script: its arguments
                          \* and what it returned
    llamadas              \* how many calls of user scripts were made

varsUsr == <<users, modules, integrations, client_puc, usr, llamadas>>

VARIABLES
    carrera               \* two concurrent procesar_y_subir_facturas: for each
                          \* process its sheet, row, tokens seen and phase

VARIABLES
    act                   \* actualizar_proveedores: its arguments, the record
                          \* that the loop reads next and its statistics

VARIABLES
    rz                    \* procesar_archivos_zip: data/facturas, the
                          \* extraction directory, the listing and the
                          \* archive that the loop reads next

VARIABLES
    env_file              \* the lines of the .env file (None: no file)

VARIABLES
    client_pucs,          \* the client_pucs collection
    xl                    \* procesar_archivo_excel: its arguments and outcome

varsMas == <<carrera, act, rz, env_file, client_pucs, xl>>

varsOtros == <<txt, varsUsr, varsMas>>

vars == <<varsProv, varsFact, varsOtros>>

\* no text helper has been called
SinLlamada ==
    [fn |-> "ninguna", lista |-> <<>>, id |-> None, zip |-> None,
     variante |-> "-", nit |-> None, limpio |-> None, otra_vez |-> None,
     desc |-> <<>>, token |-> None]

\* the state of the parts that a run of another script leaves alone
\* no user script has been called
SinLlamadaUsr ==
    [fn |-> "ninguna", ok |-> FALSE, ret |-> None, email |-> None,
     id_usuario |-> None, antes |-> {}, claves |-> {}, dados |-> None]

UsrEnReposo ==
    /\ users = <<>>
    /\ modules = <<>>
    /\ integrations = <<>>
    /\ client_puc = <<>>
    /\ usr = SinLlamadaUsr
    /\ llamadas = 0

\* no process of the concurrent runs has started
SinProceso == [uid |-> "u1", hoja |-> <<>>, k |-> 0, procesadas |-> {}, fase |-> "fin"]

\* the statistics that actualizar_proveedores starts with
EstadisticasCero ==
    [proveedores_actualizados_fiscal |-> 0, registros_procesados_fiscal |-> 0,
     registros_fallidos_fiscal |-> 0, errores |-> 0]

\* actualizar_proveedores has not been called
SinActualizar ==
    [pc |-> "idle", uid |-> "u1", datos |-> <<>>, i |-> 0,
     estadisticas |-> EstadisticasCero, corridas |-> 0]

CarreraEnReposo == carrera = [p \in {1, 2} |-> SinProceso]

ActEnReposo == act = SinActualizar

\* procesar_archivos_zip has not been called
SinZips ==
    [pc |-> "idle", dir |-> <<>>, target |-> <<>>, lista |-> <<>>, i |-> 0,
     salida |-> "ninguna", pdf |-> "ninguno",
     corridas |-> 0]

RzEnReposo == rz = SinZips

\* the .env file: its content (None when there is no file), and the content
\* before and the argument of the last call of update_uid_in_env
SinEnv == [contenido |-> None, antes |-> None, uid |-> <<>>, llamadas |-> 0]
EnvEnReposo == env_file = SinEnv

\* procesar_archivo_excel has not been called
\* the workbook that a path names: whether the file exists, whether it has
\* the sheets Hoja1 and Hoja5, and the cells of the account column of Hoja1
\* from row 6 on
SinLibro == [existe |-> FALSE, tiene_hoja1 |-> FALSE, hoja1 |-> <<>>, hoja5 |-> FALSE]

\* the last call of procesar_archivo_excel: its arguments, how it ended,
\* the collection before it and whether the unique index was created
SinExcel ==
    [uid |-> <<>>, libro |-> SinLibro, salida |-> "ninguna", antes |-> <<>>,
     indice |-> FALSE, corridas |-> 0]

ExcelEnReposo == client_pucs = <<>> /\ xl = SinExcel

MasEnReposo ==
    /\ CarreraEnReposo
    /\ ActEnReposo
    /\ RzEnReposo
    /\ EnvEnReposo
    /\ ExcelEnReposo

OtrosEnReposo == txt = SinLlamada /\ UsrEnReposo /\ MasEnReposo

SinDian ==
    [llamada |-> FALSE, zip |-> None, lanza |-> FALSE, res |-> None,
     escritos |-> {}]

SinCorrida ==
    [uid |-> "-", limpiar |-> FALSE, n |-> 0, creados |-> 0,
     actualizados |-> 0, errores |-> 0, total |-> 0, vacio |-> FALSE,
     sin_cambios |-> 0, mismo |-> FALSE, salida |-> "ninguna"]

\* ------------------------------------------------------------------------
\* procesar_archivos_csv
\* ------------------------------------------------------------------------
ArchivoActual == csvs[Archivos[archivo_i]]

\* lines 149-160 and 245-247: open the next file; an unreadable file and a
\* file that lacks a required column are skipped
AbrirArchivo ==
    /\ pc = "csv_abrir"
    /\ archivo_i <= Len(Archivos)
    /\ IF ArchivoActual.estado = "ok" /\ ArchivoActual.filas # <<>>
       THEN /\ pc' = "csv_filas"
            /\ fila_i' = 1
            /\ UNCHANGED archivo_i
       ELSE /\ archivo_i' = archivo_i + 1
            /\ UNCHANGED <<pc, fila_i>>
    /\ UNCHANGED <<csvs, providers, uid, limpiar_antes, proveedores_dict,
                   registros_fallidos, proveedores, doc_i, creados,
                   actualizados, errores, sin_cambios, salida, ultima, previa,
                   mismo_lote, lote_usado, vacio_inicio, corridas>>
    /\ UNCHANGED <<varsFact, varsOtros>>

\* lines 162-243: one iteration of the row loop
ProcesarFila ==
    /\ pc = "csv_filas"
    /\ LET row == ArchivoActual.filas[fila_i]
           cuenta == limpiar_campo(row.CUENTA)
           nit == limpiar_nit(row.NIT)
           nombre == limpiar_campo(row.NOMBRE)
       IN  /\ proveedores_dict' = FilaEnDict(proveedores_dict, uid, row)
           /\ registros_fallidos' =
                IF FaltanCampos(cuenta, nit, nombre)
                THEN Append(registros_fallidos,
                            [archivo |-> Archivos[archivo_i],
                             fila |-> fila_i + 1, nit |-> nit])
                ELSE registros_fallidos
    /\ IF fila_i < Len(ArchivoActual.filas)
       THEN /\ fila_i' = fila_i + 1
            /\ UNCHANGED <<pc, archivo_i>>
       ELSE /\ pc' = "csv_abrir"
            /\ archivo_i' = archivo_i + 1
            /\ fila_i' = 0
    /\ UNCHANGED <<csvs, providers, uid, limpiar_antes, proveedores, doc_i,
                   creados, actualizados, errores, sin_cambios, salida,
                   ultima, previa, mismo_lote, lote_usado, vacio_inicio, corridas>>
    /\ UNCHANGED <<varsFact, varsOtros>>

\* lines 249-257: the dict becomes the returned list
FinCsv ==
    /\ pc = "csv_abrir"
    /\ archivo_i > Len(Archivos)
    /\ proveedores' = proveedores_dict
    /\ pc' = "csv_fin"
    /\ UNCHANGED <<csvs, providers, uid, limpiar_antes, archivo_i, fila_i,
                   proveedores_dict, registros_fallidos, doc_i, creados,
                   actualizados, errores, sin_cambios, salida, ultima, previa,
                   mismo_lote, lote_usado, vacio_inicio, corridas>>
    /\ UNCHANGED <<varsFact, varsOtros>>

InitCsv ==
    /\ csvs \in LotesCsv
    /\ providers = <<>>
    /\ pc = "csv_abrir"
    /\ uid = "u1"
    /\ limpiar_antes = FALSE
    /\ archivo_i = 1
    /\ fila_i = 0
    /\ proveedores_dict = <<>>
    /\ registros_fallidos = <<>>
    /\ proveedores = <<>>
    /\ doc_i = 0
    /\ creados = 0 /\ actualizados = 0 /\ errores = 0 /\ sin_cambios = 0
    /\ salida = "ninguna"
    /\ ultima = SinCorrida /\ previa = SinCorrida
    /\ mismo_lote = FALSE
    /\ lote_usado = csvs
    /\ vacio_inicio = TRUE
    /\ corridas = 1
    /\ invoices = <<>>
    /\ facturas_dir = <<>>
    /\ hoja = <<>>
    /\ pcF = "idle"
    /\ uidF = "u1"
    /\ fila_k = 0
    /\ facturas_procesadas = {}
    /\ contador_creadas = 0
    /\ gestor_abierto = FALSE
    /\ salidaF = "ninguna"
    /\ corridasF = 0
    /\ dian = SinDian
    /\ hubo_falla = FALSE
    /\ repite = FALSE
    /\ OtrosEnReposo

NextCsv == AbrirArchivo \/ ProcesarFila \/ FinCsv

SpecCsv == InitCsv /\ [][NextCsv]_vars

\* ------------------------------------------------------------------------
\* subir_main: clean slate, procesar_archivos_csv, subir_proveedores_a_mongodb
\* ------------------------------------------------------------------------
Fila9v == [FilaBase EXCEPT !.COMPROBANTE = <<"v">>]
Fila9c == [FilaBase EXCEPT !.CUENTA = C6200]
Fila8 == [FilaBase EXCEPT !.NIT = <<"8">>]

\* the batches of files that successive runs find in CARPETA_CSV
LotesProv ==
    {Lote(ArchivoCsv("ok", <<>>), ArchivoCsv("ok", <<>>)),
     Lote(ArchivoCsv("ok", <<FilaBase>>), ArchivoCsv("ok", <<>>)),
     Lote(ArchivoCsv("ok", <<Fila9v>>), ArchivoCsv("faltan", <<Fila8>>)),
     Lote(ArchivoCsv("ok", <<FilaBase>>), ArchivoCsv("ok", <<Fila9c, Fila8>>)),
     Lote(ArchivoCsv("ok", <<Fila9c>>), ArchivoCsv("ok", <<Fila9v>>))}

\* a provider of another tenant that is in the store from the start
ProveedorAjeno ==
    [id |-> <<"9">>, UID |-> "u2", description |-> <<"x">>, name |-> <<"X">>,
     PUC |-> <<C6200>>, defaultPUC |-> C6200, comprobante |-> Absent,
     transactions |-> <<>>]

\* the summary of a run that ends with outcome sal on the store coll
Resumen(sal, coll) ==
    [uid |-> uid, limpiar |-> limpiar_antes, n |-> Len(proveedores),
     creados |-> creados, actualizados |-> actualizados,
     errores |-> errores, sin_cambios |-> sin_cambios,
     total |-> count_documents(coll, uid), vacio |-> vacio_inicio,
     mismo |-> mismo_lote, salida |-> sal]

\* subir_main returns or raises: its locals are gone
FinCorrida(sal, coll) ==
    /\ pc' = "idle"
    /\ salida' = sal
    /\ ultima' = Resumen(sal, coll)
    /\ previa' = ultima
    /\ archivo_i' = 1
    /\ fila_i' = 0
    /\ proveedores_dict' = <<>>
    /\ registros_fallidos' = <<>>
    /\ proveedores' = <<>>
    /\ doc_i' = 0
    /\ creados' = 0 /\ actualizados' = 0 /\ errores' = 0 /\ sin_cambios' = 0

SigueCorrida ==
    UNCHANGED <<salida, ultima, previa, archivo_i, fila_i, proveedores_dict,
                registros_fallidos, proveedores, creados, actualizados,
                errores, sin_cambios>>

\* new files are dropped in CARPETA_CSV between two runs
CambiarCsvs ==
    /\ pc = "idle"
    /\ corridas < MaxCorridas
    /\ csvs' \in LotesProv \ {csvs}
    /\ UNCHANGED <<providers, pc, uid, limpiar_antes, archivo_i, fila_i,
                   proveedores_dict, registros_fallidos, proveedores, doc_i,
                   creados, actualizados, errores, sin_cambios, salida,
                   ultima, previa, mismo_lote, lote_usado, vacio_inicio,
                   corridas>>
    /\ UNCHANGED <<varsFact, varsOtros>>

\* lines 477-500: subir_main(uid, limpiar_antes) starts
IniciarMain(u, limpia) ==
    /\ pc = "idle"
    /\ corridas < MaxCorridas
    /\ corridas' = corridas + 1
    /\ uid' = u
    /\ limpiar_antes' = limpia
    /\ pc' = IF limpia THEN "limpiar" ELSE "csv_abrir"
    /\ salida' = "en curso"
    /\ mismo_lote' = (corridas > 0 /\ csvs = lote_usado)
    /\ lote_usado' = csvs
    /\ vacio_inicio' = (count_documents(providers, u) = 0)
    /\ UNCHANGED <<csvs, providers, ultima, previa, archivo_i, fila_i,
                   proveedores_dict, registros_fallidos, proveedores, doc_i,
                   creados, actualizados, errores, sin_cambios>>
    /\ UNCHANGED <<varsFact, varsOtros>>

\* lines 85-130: limpiar_datos_previos_uid; a store error is raised again
\* and ends subir_main
Limpiar(falla) ==
    /\ pc = "limpiar"
    /\ IF falla
       THEN /\ FinCorrida("raise: limpieza", providers)
            /\ UNCHANGED <<providers, vacio_inicio>>
       ELSE /\ providers' = delete_many(providers, uid)
            /\ vacio_inicio' = TRUE
            /\ pc' = "csv_abrir"
            /\ doc_i' = doc_i
            /\ SigueCorrida
    /\ UNCHANGED <<csvs, uid, limpiar_antes, mismo_lote, lote_usado, corridas>>
    /\ UNCHANGED <<varsFact, varsOtros>>

\* subir_main lines 501-506 and subir_proveedores_a_mongodb lines 370-394:
\* nothing to upload ends the run; otherwise connect (a failed connection
\* is raised)
TrasCsv(falla) ==
    /\ pc = "csv_fin"
    /\ IF proveedores = <<>>
       THEN FinCorrida("vacio", providers)
       ELSE IF falla
            THEN FinCorrida("raise: conexion", providers)
            ELSE /\ pc' = "subir"
                 /\ doc_i' = 1
                 /\ SigueCorrida
    /\ UNCHANGED <<csvs, providers, uid, limpiar_antes, mismo_lote,
                   lote_usado, vacio_inicio, corridas>>
    /\ UNCHANGED <<varsFact, varsOtros>>

\* lines 396-434: one iteration of the upload loop
SubirProveedor(falla) ==
    /\ pc = "subir"
    /\ doc_i <= Len(proveedores)
    /\ LET doc == proveedores[doc_i]
           r == replace_one(providers, uid, doc)
       IN  IF ~Truthy(doc.id) \/ falla
           THEN /\ errores' = errores + 1
                /\ UNCHANGED <<providers, creados, actualizados, sin_cambios>>
           ELSE /\ providers' = r.coll
                /\ creados' = IF r.upserted THEN creados + 1 ELSE creados
                /\ actualizados' =
                     IF ~r.upserted /\ r.modified > 0
                     THEN actualizados + 1 ELSE actualizados
                /\ sin_cambios' =
                     IF ~r.upserted /\ r.modified = 0
                     THEN sin_cambios + 1 ELSE sin_cambios
                /\ UNCHANGED errores
    /\ doc_i' = doc_i + 1
    /\ UNCHANGED <<csvs, pc, uid, limpiar_antes, archivo_i, fila_i,
                   proveedores_dict, registros_fallidos, proveedores, salida,
                   ultima, previa, mismo_lote, lote_usado, vacio_inicio,
                   corridas>>
    /\ UNCHANGED <<varsFact, varsOtros>>

\* lines 436-473 and subir_main lines 507-519: count, close, validate
FinSubida ==
    /\ pc = "subir"
    /\ doc_i > Len(proveedores)
    /\ FinCorrida(IF FalloCritico(creados, actualizados, Len(proveedores))
                  THEN "raise: FALLO CRITICO" ELSE "ok", providers)
    /\ UNCHANGED <<csvs, providers, uid, limpiar_antes, mismo_lote,
                   lote_usado, vacio_inicio, corridas>>
    /\ UNCHANGED <<varsFact, varsOtros>>

Init ==
    /\ csvs \in LotesProv
    /\ providers = <<ProveedorAjeno>>
    /\ pc = "idle"
    /\ uid = "u1"
    /\ limpiar_antes = FALSE
    /\ archivo_i = 1
    /\ fila_i = 0
    /\ proveedores_dict = <<>>
    /\ registros_fallidos = <<>>
    /\ proveedores = <<>>
    /\ doc_i = 0
    /\ creados = 0 /\ actualizados = 0 /\ errores = 0 /\ sin_cambios = 0
    /\ salida = "ninguna"
    /\ ultima = SinCorrida /\ previa = SinCorrida
    /\ mismo_lote = FALSE
    /\ lote_usado = csvs
    /\ vacio_inicio = TRUE
    /\ corridas = 0
    /\ invoices = <<>>
    /\ facturas_dir = <<>>
    /\ hoja = <<>>
    /\ pcF = "idle"
    /\ uidF = "u1"
    /\ fila_k = 0
    /\ facturas_procesadas = {}
    /\ contador_creadas = 0
    /\ gestor_abierto = FALSE
    /\ salidaF = "ninguna"
    /\ corridasF = 0
    /\ dian = SinDian
    /\ hubo_falla = FALSE
    /\ repite = FALSE
    /\ OtrosEnReposo

Next ==
    \/ CambiarCsvs
    \/ \E u \in UIDs, limpia \in BOOLEAN : IniciarMain(u, limpia)
    \/ \E falla \in BOOLEAN : Limpiar(falla)
    \/ AbrirArchivo
    \/ ProcesarFila
    \/ FinCsv
    \/ \E falla \in BOOLEAN : TrasCsv(falla)
    \/ \E falla \in BOOLEAN : SubirProveedor(falla)
    \/ FinSubida

Spec == Init /\ [][Next]_vars

\* ------------------------------------------------------------------------
\* Invoice upload: inputs
\* ------------------------------------------------------------------------
\* columns of the spreadsheet read by procesar_y_subir_facturas
COL_TIPO == 0
COL_NIT == 16
COL_DESC == 18
COL_ID == 86

TIPO_DE_FACTURA == <<"T", "I", "P", "O", " ", "D", "E", " ", "F", "A", "C", "T", "U", "R", "A">>
Servicio == <<"S", "e", "r", "v", "i", "c", "i", "o">>
Arrendamiento == <<"A", "r", "r", "e", "n", "d", "a", "m", "i", "e", "n", "t", "o">>
ServicioGasto == <<"S", "e", "r", "v", "i", "c", "i", "o", " ", "-", " ", "G", "a", "s", "t", "o">>
OtroTipo == <<"P", "r", "o", "d", "u", "c", "t", "o">>
PuntoPdf == <<".", "p", "d", "f">>
PuntoZip == <<".", "z", "i", "p">>

\* a spreadsheet row of n cells; a cell beyond n does not exist
FilaHoja(n, tipo, nit, desc, id) ==
    [n |-> n, tipo |-> tipo, nit |-> nit, desc |-> desc, id |-> id]

Encabezado(n) == FilaHoja(n, TIPO_DE_FACTURA, None, None, None)

FA1(n) == FilaHoja(n, ServicioGasto, <<"9", "-">>, <<"F", " ", "1">>, <<"A", "1">>)
FA2(n) == FilaHoja(n, Arrendamiento, <<"8">>, <<"F", " ", "2">>, <<"A", "2">>)
FA1b(n) == FilaHoja(n, Arrendamiento, <<"7">>, <<"G", " ", "3">>, <<"A", "1">>)
FA2r(n) == FilaHoja(n, ServicioGasto, <<"8">>, <<"F", " ", "1">>, <<"A", "2">>)
FOtro(n) == FilaHoja(n, OtroTipo, <<"5">>, <<"F", " ", "4">>, <<"A", "1">>)
FVacia(n) == FilaHoja(n, None, None, None, None)

AnchoHoja == COL_ID + 1

\* the spreadsheets that the runs read
Hojas ==
    {<<Encabezado(AnchoHoja), FA1(AnchoHoja)>>,
     <<Encabezado(AnchoHoja), FA1(AnchoHoja), FA2(AnchoHoja)>>,
     <<Encabezado(AnchoHoja), FA1b(AnchoHoja), FA1(AnchoHoja)>>,
     <<FVacia(AnchoHoja), Encabezado(AnchoHoja), FVacia(AnchoHoja),
       FOtro(AnchoHoja), FA2(AnchoHoja)>>,
     <<Encabezado(AnchoHoja), FA1(AnchoHoja), FA2r(AnchoHoja)>>,
     <<FA1(AnchoHoja)>>,
     <<Encabezado(COL_DESC + 1), FOtro(COL_DESC + 1), FA1(COL_DESC + 1),
       FA2(COL_DESC + 1)>>,
     <<Encabezado(COL_NIT), FA2(COL_NIT), FA1(COL_NIT)>>}

\* an entry of the directory data/facturas: an archive with its member
\* list, or another file or directory
Entrada(tipo) == [tipo |-> tipo, legible |-> FALSE, miembros |-> <<>>, falla_en |-> 0]

\* a readable archive; falla_en = k > 0: unpacking fails on member k
Zip(miembros, falla_en) ==
    [tipo |-> "zip", legible |-> TRUE, miembros |-> miembros, falla_en |-> falla_en]

Miembro(nombre, tipo) == [nombre |-> nombre, tipo |-> tipo]

A1zip == <<"A", "1">> \o PuntoZip
A2zip == <<"A", "2">> \o PuntoZip
Fpdf == <<"f">> \o PuntoPdf
Gpdf == <<"g">> \o PuntoPdf
Fxml == <<"f", ".", "x", "m", "l">>
SubDir == <<"s", "/">>
SubPdf == SubDir \o Fpdf

\* the description that the PDF table scan of a well formed invoice returns
DescDian == <<"D">>

Dirs ==
    {<<>>,
     (A1zip :> Zip(<<Miembro(Fpdf, "pdf_desc"), Miembro(Fxml, "otro")>>, 0)),
     (A1zip :> Zip(<<Miembro(Fpdf, "pdf_desc"), Miembro(Fxml, "otro")>>, 2))
        @@ (A2zip :> Zip(<<Miembro(Gpdf, "pdf_sin")>>, 0)),
     (A1zip :> Entrada("otro")),
     (A1zip :> Zip(<<Miembro(SubDir, "dir"), Miembro(SubPdf, "pdf_error")>>, 0))
        @@ (A2zip :> Zip(<<Miembro(Gpdf, "pdf_sin")>>, 0)),
     (A1zip :> Zip(<<Miembro(A2zip, "otro"), Miembro(Fpdf, "pdf_desc")>>, 0))
        @@ (A2zip :> Zip(<<Miembro(Gpdf, "pdf_desc")>>, 0))}

\* ------------------------------------------------------------------------
\* Archive extraction
\* ------------------------------------------------------------------------
\* obtener_archivos_zip: the names ending in .zip
NombresZip(dir) == {f \in DOMAIN dir : EndsWith(f, PuntoZip)}

\* os.listdir gives the names in an arbitrary order
Ordenes(S) ==
    {f \in [1..Cardinality(S) -> S] : \A i, j \in 1..Cardinality(S) :
                                          i # j => f[i] # f[j]}

\* the directory after the first k members of an archive are written
Escribir(dir, miembros, k) ==
    LET nuevos == {miembros[i].nombre : i \in 1..k}
        ultimo(nm) == SetMax({i \in 1..k : miembros[i].nombre = nm})
    IN  [f \in DOMAIN dir \cup nuevos |->
            IF f \in nuevos THEN Entrada(miembros[ultimo(f)].tipo) ELSE dir[f]]

\* extraer_zip (renombrar_zips.py 23-28): an unreadable archive raises
\* before anything is written; a damaged member raises after the members
\* before it, and the damaged one, are written
extraer_zip(dir, zip) ==
    LET z == dir[zip]
        n == Len(z.miembros)
    IN  IF ~z.legible
        THEN [dir |-> dir, lanza |-> TRUE, nombres |-> <<>>, escritos |-> {}]
        ELSE IF z.falla_en > 0
        THEN [dir |-> Escribir(dir, z.miembros, z.falla_en), lanza |-> TRUE,
              nombres |-> <<>>,
              escritos |-> {z.miembros[i].nombre : i \in 1..z.falla_en}]
        ELSE [dir |-> Escribir(dir, z.miembros, n), lanza |-> FALSE,
              nombres |-> [i \in 1..n |-> z.miembros[i].nombre],
              escritos |-> {z.miembros[i].nombre : i \in 1..n}]

\* obtener_descripcion_dian_desde_pdf: every exception is caught
obtener_descripcion_dian_desde_pdf(dir, ruta_pdf) ==
    IF dir[ruta_pdf].tipo = "pdf_desc" THEN DescDian ELSE None

\* lines 127-134: os.remove of every member that exists; removing a
\* directory fails and the failure is only logged
BorrarExtraidos(dir, nombres) ==
    LET borrados == {f \in DOMAIN dir :
                        /\ \E i \in 1..Len(nombres) : nombres[i] = f
                        /\ dir[f].tipo # "dir"}
    IN  [f \in DOMAIN dir \ borrados |-> dir[f]]

\* lines 121-126: the description of the first member ending in .pdf
PrimerPdf(dir, nombres, pdfs) ==
    IF pdfs = {} THEN None
    ELSE obtener_descripcion_dian_desde_pdf(dir, nombres[SetMin(pdfs)])

\* lines 120-135, x being the outcome of extraer_zip
TrasExtraer(zip_encontrado, x) ==
    IF x.lanza
    THEN [dir |-> x.dir, lanza |-> TRUE, res |-> None,
          zip |-> zip_encontrado, escritos |-> x.escritos]
    ELSE [dir |-> BorrarExtraidos(x.dir, x.nombres), lanza |-> FALSE,
          res |-> PrimerPdf(x.dir, x.nombres,
                    {i \in 1..Len(x.nombres) : EndsWith(x.nombres[i], PuntoPdf)}),
          zip |-> zip_encontrado, escritos |-> x.escritos]

\* lines 116-120
ConZip(dir, zip_encontrado) ==
    IF zip_encontrado = None
    THEN [dir |-> dir, lanza |-> FALSE, res |-> None, zip |-> None,
          escritos |-> {}]
    ELSE TrasExtraer(zip_encontrado, extraer_zip(dir, zip_encontrado))

\* extraer_descripcion_dian (lines 110-135) on the listing lista
extraer_descripcion_dian(dir, lista, id_factura) ==
    ConZip(dir, buscar_zip_similar(lista, id_factura))

\* ------------------------------------------------------------------------
\* procesar_y_subir_facturas
\* ------------------------------------------------------------------------
\* lines 154-159: the index of the first row after the header row (0: no
\* header row)
indice_inicio(filas) ==
    LET enc == {i \in 1..Len(filas) :
                   filas[i].n > COL_TIPO
                   /\ Strip(StrDe(filas[i].tipo)) = TIPO_DE_FACTURA}
    IN  IF enc = {} THEN 0 ELSE SetMin(enc) + 1

find_one_SinUID(coll, u, id_factura) ==
    \E i \in 1..Len(coll) : coll[i].UID # u /\ coll[i].invoiceId = id_factura

\* find_one({"UID": uid, "invoiceId": id_factura})
find_one(coll, u, id_factura) ==
    \E i \in 1..Len(coll) : coll[i].UID = u /\ coll[i].invoiceId = id_factura

YaExiste_Nunca(coll, u, id_factura) == FALSE

\* lines 182-188: the row is skipped when its invoice is already stored
YaExiste(coll, u, id_factura) == find_one(coll, u, id_factura)

\* lines 189-198
invoice_data(u, id_proveedor, desc_archivo, id_factura, tipo, desc_dian) ==
    [UID |-> u, supplierId |-> id_proveedor,
     file_description |-> desc_archivo, invoiceId |-> id_factura,
     invoice_type |-> tipo, dian_description |-> desc_dian,
     module |-> id_proveedor, entity |-> id_factura]

\* lines 164-170: rows without a first cell and rows of other invoice types
\* are passed over
FilaOmitida(fila) ==
    \/ fila.n = 0
    \/ ~Truthy(fila.tipo)
    \/ /\ ~IsSubstr(Servicio, Strip(StrDe(fila.tipo)))
       /\ ~IsSubstr(Arrendamiento, Strip(StrDe(fila.tipo)))

\* lines 140-163: open the store, load the sheet, look for the header
IniciarFacturas(u, h) ==
    /\ pcF = "idle"
    /\ corridasF < MaxCorridas
    /\ corridasF' = corridasF + 1
    /\ uidF' = u
    /\ hoja' = h
    /\ contador_creadas' = 0
    /\ facturas_procesadas' = {}
    /\ dian' = SinDian
    /\ hubo_falla' = FALSE
    /\ repite' = (salidaF = "ok" /\ ~hubo_falla /\ h = hoja /\ u = uidF)
    /\ IF indice_inicio(h) = 0
       THEN /\ pcF' = "idle"
            /\ gestor_abierto' = FALSE
            /\ salidaF' = "sin encabezado"
            /\ fila_k' = 0
       ELSE /\ pcF' = "filas"
            /\ gestor_abierto' = TRUE
            /\ salidaF' = "en curso"
            /\ fila_k' = indice_inicio(h)
    /\ UNCHANGED <<invoices, facturas_dir>>
    /\ UNCHANGED <<varsProv, varsOtros>>

\* the run is left by an exception that nothing catches: the rows after
\* fila_k are not read and gestor.close() is not reached
Lanzar(error) ==
    /\ pcF' = "idle"
    /\ salidaF' = error
    /\ UNCHANGED <<fila_k, gestor_abierto>>

\* lines 164-205: one iteration of the row loop on the row fila, d being
\* the outcome of extraer_descripcion_dian for the row
PasoFila(fila, tipo_factura, id_proveedor, descripcion_archivo, id_factura_original, id_factura, d, falla_busqueda, falla_insercion) ==
    LET sigue == /\ pcF' = "filas"
                 /\ fila_k' = fila_k + 1
                 /\ UNCHANGED <<salidaF, gestor_abierto>>
    IN  IF FilaOmitida(fila)
        THEN /\ sigue
             /\ UNCHANGED <<invoices, facturas_dir, facturas_procesadas,
                            contador_creadas, dian, hubo_falla>>
        ELSE IF fila.n <= COL_DESC
        THEN /\ Lanzar("raise: IndexError")
             /\ UNCHANGED <<invoices, facturas_dir, facturas_procesadas,
                            contador_creadas, dian, hubo_falla>>
        ELSE IF id_factura_original \in facturas_procesadas
        THEN /\ sigue
             /\ UNCHANGED <<invoices, facturas_dir, facturas_procesadas,
                            contador_creadas, dian, hubo_falla>>
        ELSE /\ facturas_procesadas' =
                  facturas_procesadas \cup {id_factura_original}
             /\ IF fila.n <= COL_ID
                THEN /\ Lanzar("raise: IndexError")
                     /\ UNCHANGED <<invoices, facturas_dir,
                                    contador_creadas, dian, hubo_falla>>
                ELSE /\ facturas_dir' = d.dir
                     /\ dian' = [llamada |-> TRUE, zip |-> d.zip,
                                 lanza |-> d.lanza, res |-> d.res,
                                 escritos |-> d.escritos]
                     /\ IF d.lanza
                        THEN /\ Lanzar("raise: zip")
                             /\ UNCHANGED <<invoices, contador_creadas,
                                            hubo_falla>>
                        ELSE IF falla_busqueda
                        THEN /\ Lanzar("raise: store")
                             /\ UNCHANGED <<invoices, contador_creadas,
                                            hubo_falla>>
                        ELSE IF YaExiste(invoices, uidF, id_factura)
                        THEN /\ sigue
                             /\ UNCHANGED <<invoices, contador_creadas,
                                            hubo_falla>>
                        ELSE IF falla_insercion
                        THEN /\ sigue
                             /\ hubo_falla' = TRUE
                             /\ UNCHANGED <<invoices, contador_creadas>>
                        ELSE /\ sigue
                             /\ invoices' = Append(invoices,
                                  invoice_data(uidF, id_proveedor,
                                     descripcion_archivo, id_factura,
                                     tipo_factura, d.res))
                             /\ contador_creadas' = contador_creadas + 1
                             /\ UNCHANGED hubo_falla

\* lines 164-205 with the values that the row gives. lista is the listing
\* of the archive directory, falla_busqueda and falla_insercion say whether
\* find_one and insert_one fail in the store.
FilaFactura(lista, falla_busqueda, falla_insercion) ==
    /\ pcF = "filas"
    /\ fila_k <= Len(hoja)
    /\ lista \in Ordenes(NombresZip(facturas_dir))
    /\ PasoFila(hoja[fila_k],
                Strip(StrDe(hoja[fila_k].tipo)),
                Strip(limpiar_nit_factura(StrDe(hoja[fila_k].nit))),
                Strip(StrDe(hoja[fila_k].desc)),
                extraer_id_factura(Strip(StrDe(hoja[fila_k].desc))),
                Strip(StrDe(hoja[fila_k].id)),
                extraer_descripcion_dian(facturas_dir, lista,
                                         Strip(StrDe(hoja[fila_k].id))),
                falla_busqueda, falla_insercion)
    /\ UNCHANGED <<hoja, uidF, corridasF, repite>>
    /\ UNCHANGED <<varsProv, varsOtros>>

\* lines 206-207: gestor.close() after the last row
FinFacturas ==
    /\ pcF = "filas"
    /\ fila_k > Len(hoja)
    /\ pcF' = "idle"
    /\ gestor_abierto' = FALSE
    /\ salidaF' = "ok"
    /\ UNCHANGED <<invoices, facturas_dir, hoja, uidF, fila_k,
                   facturas_procesadas, contador_creadas, corridasF, dian,
                   hubo_falla, repite>>
    /\ UNCHANGED <<varsProv, varsOtros>>

InitFacturas ==
    /\ invoices = <<>>
    /\ facturas_dir \in Dirs
    /\ hoja = <<>>
    /\ pcF = "idle"
    /\ uidF = "u1"
    /\ fila_k = 0
    /\ facturas_procesadas = {}
    /\ contador_creadas = 0
    /\ gestor_abierto = FALSE
    /\ salidaF = "ninguna"
    /\ corridasF = 0
    /\ dian = SinDian
    /\ hubo_falla = FALSE
    /\ repite = FALSE
    /\ OtrosEnReposo
    /\ csvs = Lote(ArchivoCsv("ok", <<>>), ArchivoCsv("ok", <<>>))
    /\ providers = <<>>
    /\ pc = "idle"
    /\ uid = "u1"
    /\ limpiar_antes = FALSE
    /\ archivo_i = 1
    /\ fila_i = 0
    /\ proveedores_dict = <<>>
    /\ registros_fallidos = <<>>
    /\ proveedores = <<>>
    /\ doc_i = 0
    /\ creados = 0 /\ actualizados = 0 /\ errores = 0 /\ sin_cambios = 0
    /\ salida = "ninguna"
    /\ ultima = SinCorrida /\ previa = SinCorrida
    /\ mismo_lote = FALSE
    /\ lote_usado = csvs
    /\ vacio_inicio = TRUE
    /\ corridas = 0

NextFacturas ==
    \/ \E u \in UIDs, h \in Hojas : IniciarFacturas(u, h)
    \/ \E lista \in Ordenes(NombresZip(facturas_dir)),
          falla_busqueda \in BOOLEAN, falla_insercion \in BOOLEAN :
            FilaFactura(lista, falla_busqueda, falla_insercion)
    \/ FinFacturas

SpecFacturas == InitFacturas /\ [][NextFacturas]_vars

\* ------------------------------------------------------------------------
\* The text helpers called on their own
\* ------------------------------------------------------------------------
MaxLista == 3

A12zip == <<"A", "1", "2">> \o PuntoZip
A13zip == <<"A", "1", "3">> \o PuntoZip
Azip == <<"A">> \o PuntoZip
B7zip == <<"B", "7">> \o PuntoZip

\* names that a listing gives to buscar_zip_similar; the empty name stands
\* for the entries that line 63 filters out
NombresT == {A1zip, A12zip, A13zip, Azip, B7zip, <<>>}

\* identifiers: str(cell).strip() of the id column, and None
IdsT ==
    {<<"A", "1">>, <<"a", "1">>, <<"A", "1", "2">>, <<"B", "9">>, <<>>,
     <<" ">>, None}

\* NIT cells: text, the empty text, None (openpyxl) and nan (pandas)
NitsT ==
    {<<"9", "0", "0", ".", "1", "2", "3", ".", "4", "5", "6", "-", "7">>,
     <<"9", "-">>, <<" ", "8", " ">>, <<"a", "b">>, <<"²", "9">>, <<>>,
     None, NaN}

\* the limpiar_nit of the invoice scripts (''.join(filter(str.isdigit,
\* nit_raw or ''))) and the one of the provider scripts (a value that is not
\* a str is returned as it is)
VariantesNit == {"facturas", "proveedores"}

DescsT ==
    {<<"F", "a", "c", "t", "u", "r", "a", " ", "N", "o", " ", "0", "0", "0",
       "1", "2", "3", " ", "S", "e", "r", "v", "i", "c", "i", "o">>,
     <<"F", " ", "1">>, <<" ", "a", "b", " ", "c", "7", "d", " ", "8">>,
     <<"a", "b", " ", "c">>, <<"x", "²">>, <<" ", " ">>, <<>>}

\* the call that is about to be made
Pendiente(fn) == [SinLlamada EXCEPT !.fn = fn]

LlamadasT ==
    {[Pendiente("por llamar: buscar_zip_similar")
        EXCEPT !.lista = l, !.id = i] :
            l \in SeqsHasta(NombresT, MaxLista), i \in IdsT}
    \cup {[Pendiente("por llamar: limpiar_nit")
             EXCEPT !.variante = v, !.nit = n] :
                v \in VariantesNit, n \in NitsT}
    \cup {[Pendiente("por llamar: extraer_id_factura") EXCEPT !.desc = d] :
                d \in DescsT}

\* filter(str.isdigit, nan) raises TypeError: the invoice variant is called
\* on str and None only
LimpiarNitDe(variante, nit) ==
    IF variante = "facturas" THEN limpiar_nit_factura(nit)
    ELSE limpiar_nit(nit)

ProvEnReposo ==
    /\ csvs = Lote(ArchivoCsv("ok", <<>>), ArchivoCsv("ok", <<>>))
    /\ providers = <<>>
    /\ pc = "idle"
    /\ uid = "u1"
    /\ limpiar_antes = FALSE
    /\ archivo_i = 1
    /\ fila_i = 0
    /\ proveedores_dict = <<>>
    /\ registros_fallidos = <<>>
    /\ proveedores = <<>>
    /\ doc_i = 0
    /\ creados = 0 /\ actualizados = 0 /\ errores = 0 /\ sin_cambios = 0
    /\ salida = "ninguna"
    /\ ultima = SinCorrida /\ previa = SinCorrida
    /\ mismo_lote = FALSE
    /\ lote_usado = csvs
    /\ vacio_inicio = TRUE
    /\ corridas = 0

FactEnReposo ==
    /\ invoices = <<>>
    /\ facturas_dir = <<>>
    /\ hoja = <<>>
    /\ pcF = "idle"
    /\ uidF = "u1"
    /\ fila_k = 0
    /\ facturas_procesadas = {}
    /\ contador_creadas = 0
    /\ gestor_abierto = FALSE
    /\ salidaF = "ninguna"
    /\ corridasF = 0
    /\ dian = SinDian
    /\ hubo_falla = FALSE
    /\ repite = FALSE

\* subir_facturas_mongodb.py 56-73
LlamarBuscarZip ==
    /\ txt.fn = "por llamar: buscar_zip_similar"
    /\ txt' = [txt EXCEPT !.fn = "buscar_zip_similar",
                          !.zip = buscar_zip_similar(txt.lista, txt.id)]
    /\ UNCHANGED <<varsProv, varsFact, varsUsr, varsMas>>

\* limpiar_nit, and limpiar_nit again on what it returned
LlamarLimpiarNit ==
    /\ txt.fn = "por llamar: limpiar_nit"
    /\ ~(txt.variante = "facturas" /\ txt.nit = NaN)
    /\ txt' = [txt EXCEPT
                 !.fn = "limpiar_nit",
                 !.limpio = LimpiarNitDe(txt.variante, txt.nit),
                 !.otra_vez = LimpiarNitDe(txt.variante,
                                 LimpiarNitDe(txt.variante, txt.nit))]
    /\ UNCHANGED <<varsProv, varsFact, varsUsr, varsMas>>

\* subir_facturas_mongodb.py 44-54
LlamarExtraerId ==
    /\ txt.fn = "por llamar: extraer_id_factura"
    /\ txt' = [txt EXCEPT !.fn = "extraer_id_factura",
                          !.token = extraer_id_factura(txt.desc)]
    /\ UNCHANGED <<varsProv, varsFact, varsUsr, varsMas>>

InitTexto ==
    /\ txt \in LlamadasT
    /\ ProvEnReposo
    /\ FactEnReposo
    /\ UsrEnReposo
    /\ MasEnReposo

NextTexto == LlamarBuscarZip \/ LlamarLimpiarNit \/ LlamarExtraerId

SpecTexto == InitTexto /\ [][NextTexto]_vars

\* ------------------------------------------------------------------------
\* Claims on the text helpers (SpecTexto)
\* ------------------------------------------------------------------------
\* lower-cased and trimmed
Normal(s) == Strip(LowerStr(s))

\* the containment test between an identifier and a candidate name
PasaContencion(nombre, id) ==
    /\ nombre # <<>>
    /\ \/ IsSubstr(Normal(id), Normal(splitext_base(nombre)))
       \/ IsSubstr(Normal(splitext_base(nombre)), Normal(id))

ConContencion(lista, id) ==
    {k \in 1..Len(lista) : PasaContencion(lista[k], id)}

\* C12 (as claimed): for a non-empty identifier, a list that holds a name
\* whose base (the name without its extension) equals the identifier makes
\* buscar_zip_similar return that name, wherever it stands in the list and
\* whatever the other names are.
C12_BaseIgualDevuelta ==
    (txt.fn = "buscar_zip_similar" /\ IsStr(txt.id) /\ txt.id # <<>>)
        => \A k \in 1..Len(txt.lista) :
              (txt.lista[k] # <<>> /\ splitext_base(txt.lista[k]) = txt.id)
                  => txt.zip = txt.lista[k]

\* C13 (as claimed): whenever a non-empty candidate passes the containment
\* test, buscar_zip_similar returns the first such candidate in input order.
C13_ContencionPrimero_Original ==
    (/\ txt.fn = "buscar_zip_similar"
     /\ IsStr(txt.id)
     /\ ConContencion(txt.lista, txt.id) # {})
        => txt.zip = txt.lista[SetMin(ConContencion(txt.lista, txt.id))]

\* C13 (amended): for a non-empty identifier, whenever a non-empty candidate
\* passes the containment test, buscar_zip_similar returns the first such
\* candidate in input order, also when another candidate has a higher
\* similarity ratio; for the empty identifier it returns None.
C13_ContencionPrimero ==
    txt.fn = "buscar_zip_similar" =>
        /\ (/\ IsStr(txt.id) /\ txt.id # <<>>
            /\ ConContencion(txt.lista, txt.id) # {})
              => txt.zip = txt.lista[SetMin(ConContencion(txt.lista, txt.id))]
        /\ txt.id = <<>> => txt.zip = None

\* A.zip passes the containment test for A12 and is returned although
\* A13.zip, before it in the list, has the higher ratio
C13_Witness ==
    /\ txt.fn = "buscar_zip_similar"
    /\ txt.lista = <<A13zip, Azip>>
    /\ txt.id = <<"A", "1", "2">>
    /\ ConContencion(txt.lista, txt.id) = {2}
    /\ RatioMenor(Ratio(<<"a">>, Normal(txt.id)),
                  Ratio(<<"a", "1", "3">>, Normal(txt.id)))
    /\ PasaCorte(Ratio(<<"a", "1", "3">>, Normal(txt.id)))
    /\ txt.zip = Azip

\* C14 (as claimed): each limpiar_nit returns a string of the characters
\* 0-9 only, the empty string for a missing or empty input, and applying it
\* again changes nothing; "900.123.456-7" gives "9001234567".
C14_SoloDigitosIdempotente ==
    txt.fn = "limpiar_nit" =>
        /\ IsStr(txt.limpio) /\ OnlyDigits(txt.limpio)
        /\ txt.nit \in {None, NaN, <<>>} => txt.limpio = <<>>
        /\ txt.otra_vez = txt.limpio
        /\ txt.nit = <<"9", "0", "0", ".", "1", "2", "3", ".", "4", "5", "6",
                       "-", "7">>
             => txt.limpio = <<"9", "0", "0", "1", "2", "3", "4", "5", "6",
                               "7">>

\* the token of d that starts at a and ends at b: a maximal run of
\* characters that are not blank
EsToken(d, a, b) ==
    /\ 1 <= a /\ a <= b /\ b <= Len(d)
    /\ \A i \in a..b : d[i] # " "
    /\ a = 1 \/ d[a - 1] = " "
    /\ b = Len(d) \/ d[b + 1] = " "

\* the tokens of d that hold a digit, as pairs of positions
TokensConDigito(d) ==
    {t \in (1..Len(d)) \X (1..Len(d)) :
        /\ EsToken(d, t[1], t[2])
        /\ \E i \in t[1]..t[2] : IsDigitChar(d[i])}

\* C15: extraer_id_factura returns the int 0 when the trimmed description
\* is empty, None when no token of it holds a digit, and else the leftmost
\* token that holds a digit; "Factura No 000123 Servicio" gives "000123".
C15_PrimerTokenConDigito ==
    txt.fn = "extraer_id_factura" =>
        LET d == Strip(txt.desc)
            ts == TokensConDigito(d)
        IN  /\ d = <<>> => txt.token = Cero
            /\ (d # <<>> /\ ts = {}) => txt.token = None
            /\ ts # {} =>
                  \E t \in ts :
                     /\ \A u \in ts : t[1] <= u[1]
                     /\ txt.token = SubSeq(d, t[1], t[2])

C15_Witness ==
    /\ txt.fn = "extraer_id_factura"
    /\ txt.desc = <<"F", "a", "c", "t", "u", "r", "a", " ", "N", "o", " ",
                    "0", "0", "0", "1", "2", "3", " ", "S", "e", "r", "v",
                    "i", "c", "i", "o">>
    /\ txt.token = <<"0", "0", "0", "1", "2", "3">>

\* ------------------------------------------------------------------------
\* Claims on procesar_archivos_csv (SpecCsv)
\* ------------------------------------------------------------------------
\* the rows that the row loop reads, in order: those of the readable files
\* that have every required column
FilasLeidas(lote) ==
    LET de(k) == IF lote[Archivos[k]].estado = "ok"
                 THEN lote[Archivos[k]].filas ELSE <<>>
    IN  de(1) \o de(2)

FilaAceptada(row) ==
    ~FaltanCampos(limpiar_campo(row.CUENTA), limpiar_nit(row.NIT),
                  limpiar_campo(row.NOMBRE))

Aceptadas(lote) == SelectSeq(FilasLeidas(lote), FilaAceptada)

\* the account codes of the accepted rows of one NIT, in input order
CuentasDe(lote, nit) ==
    LET grupo == SelectSeq(Aceptadas(lote), LAMBDA r : limpiar_nit(r.NIT) = nit)
    IN  [i \in 1..Len(grupo) |-> limpiar_campo(grupo[i].CUENTA)]

PrimeraAparicion(s, x) == SetMin({i \in 1..Len(s) : s[i] = x})

\* p lists the distinct values of s, each once, in order of first appearance
DistintosEnOrden(p, s) ==
    /\ {p[i] : i \in 1..Len(p)} = {s[i] : i \in 1..Len(s)}
    /\ \A i, j \in 1..Len(p) : i < j =>
          /\ p[i] # p[j]
          /\ PrimeraAparicion(s, p[i]) < PrimeraAparicion(s, p[j])

\* the NIT cell is missing or holds no digit
NitSinDigito(celda) == ~IsStr(celda) \/ SelectSeq(celda, IsDigitChar) = <<>>

IdValido(id) == IsStr(id) /\ id # <<>> /\ OnlyDigits(id)

IdsValidos(dict) == \A i \in 1..Len(dict) : IdValido(dict[i].id)

\* C9 (as claimed): a row whose NIT cell is missing or has no digit is
\* dropped, adds exactly one entry to registros_fallidos and reaches no
\* provider record, so every id in the dict is a non-empty string of digits.
C9_FilaSinNitDescartada ==
    [][pc = "csv_filas" =>
         /\ NitSinDigito(ArchivoActual.filas[fila_i].NIT) =>
              /\ Len(registros_fallidos') = Len(registros_fallidos) + 1
              /\ proveedores_dict' = proveedores_dict
         /\ IdsValidos(proveedores_dict')]_vars

\* C10: when procesar_archivos_csv returns, each NIT of an accepted row has
\* exactly one record, and its PUC list is the distinct account codes of the
\* accepted rows of that NIT in order of first appearance.
C10_PucDistintosEnOrden ==
    pc = "csv_fin" =>
        \A r \in {Aceptadas(csvs)[i] : i \in 1..Len(Aceptadas(csvs))} :
            LET nit == limpiar_nit(r.NIT)
                m == {i \in 1..Len(proveedores) : proveedores[i].id = nit}
            IN  /\ Cardinality(m) = 1
                /\ \A i \in m :
                      DistintosEnOrden(proveedores[i].PUC, CuentasDe(csvs, nit))

\* a NIT read as 5100 in the first file, then 5100 and 6200 in the second
C10_Witness ==
    /\ pc = "csv_fin"
    /\ CuentasDe(csvs, <<"9">>) = <<C5100, C5100, C6200>>
    /\ \E i \in 1..Len(proveedores) :
          proveedores[i].id = <<"9">> /\ proveedores[i].PUC = <<C5100, C6200>>

\* the accepted rows of one NIT, in input order
GrupoDe(lote, nit) ==
    SelectSeq(Aceptadas(lote), LAMBDA r : limpiar_nit(r.NIT) = nit)

NoVacio(v) == IsStr(v) /\ v # <<>>

\* v is the first non-empty value of s, when s has one
EsPrimerNoVacio(v, s) ==
    (\E i \in 1..Len(s) : NoVacio(s[i]))
        => v = s[SetMin({i \in 1..Len(s) : NoVacio(s[i])})]

\* C11 (as claimed): when procesar_archivos_csv returns, the name and the
\* description of each record are the first non-empty name and the first
\* non-empty description among the accepted rows of its NIT, in input order.
C11_PrimerNoVacioGana ==
    pc = "csv_fin" =>
        \A k \in 1..Len(proveedores) :
            LET grupo == GrupoDe(csvs, proveedores[k].id)
            IN  /\ EsPrimerNoVacio(proveedores[k].name,
                      [i \in 1..Len(grupo) |-> limpiar_campo(grupo[i].NOMBRE)])
                /\ EsPrimerNoVacio(proveedores[k].description,
                      [i \in 1..Len(grupo) |->
                          limpiar_campo(grupo[i].DESCRIPCION)])

\* ------------------------------------------------------------------------
\* Claims on the provider reconciler (Spec)
\* ------------------------------------------------------------------------
\* C1 (as claimed): two consecutive runs of subir_main over the same files
\* for one UID, the first on a store without documents of that UID and the
\* second on the store the first one left, without store failures: the first
\* creates N and updates 0, the second creates 0, writes or leaves unchanged
\* N, does not raise, and the number of documents of the UID is the same.
C1_DosCorridasIdenticas ==
    (/\ pc = "idle"
     /\ previa.salida = "ok" /\ previa.vacio /\ previa.errores = 0
     /\ previa.n > 0
     /\ ultima.mismo /\ ultima.uid = previa.uid /\ ~ultima.limpiar
     /\ ultima.errores = 0
     /\ ultima.salida \in {"ok", "vacio", "raise: FALLO CRITICO"})
    => /\ previa.creados = previa.n /\ previa.actualizados = 0
       /\ ultima.creados = 0
       /\ ultima.actualizados + ultima.sin_cambios = previa.n
       /\ ultima.salida = "ok"
       /\ ultima.total = previa.total

SinRepetidos(lista) ==
    \A i, j \in 1..Len(lista) : i # j => lista[i] # lista[j]

Elementos(lista) == {lista[i] : i \in 1..Len(lista)}

\* C2 (as claimed): a write of subir_proveedores_a_mongodb on a provider
\* whose (UID, id) is already stored keeps every stored account code and
\* adds the new ones without duplicates, and keeps the stored transactions
\* followed by the new ones.
C2_FusionAlActualizar ==
    [][(/\ pc = "subir" /\ doc_i' = doc_i + 1 /\ errores' = errores
        /\ Coincide(providers, uid, proveedores[doc_i].id) # {})
       => LET doc == proveedores[doc_i]
              i == SetMin(Coincide(providers, uid, doc.id))
          IN  /\ Elementos(providers'[i].PUC) =
                   Elementos(providers[i].PUC) \cup Elementos(doc.PUC)
              /\ SinRepetidos(providers'[i].PUC)
              /\ providers'[i].transactions =
                   providers[i].transactions \o doc.transactions]_vars

\* C3 (as claimed): a provider whose write changes nothing is not counted in
\* errores, and a call in which some write changed nothing does not raise,
\* also when every provider of the batch is such a no-op.
C3_SinCambiosNoEsError ==
    [][/\ (pc = "subir" /\ sin_cambios' > sin_cambios) => errores' = errores
       /\ (pc = "subir" /\ pc' = "idle" /\ sin_cambios > 0 /\ errores = 0)
            => salida' = "ok"]_vars

\* ------------------------------------------------------------------------
\* Claims on the invoice upload (SpecFacturas)
\* ------------------------------------------------------------------------
DocsDe(coll, u, id_factura) ==
    {i \in 1..Len(coll) : coll[i].UID = u /\ coll[i].invoiceId = id_factura}

\* the row k of the sheet h is read as an invoice: it is not passed over
\* and no row before it gave the same file token
FilaSubida(h, k) ==
    /\ ~FilaOmitida(h[k])
    /\ \A j \in indice_inicio(h)..(k - 1) :
          \/ FilaOmitida(h[j])
          \/ extraer_id_factura(Strip(StrDe(h[j].desc)))
               # extraer_id_factura(Strip(StrDe(h[k].desc)))

\* C4: after any sequence of runs of procesar_y_subir_facturas the invoices
\* collection holds at most one document for each (UID, invoiceId), and
\* after a run that ended without failure exactly one for each invoice that
\* the sheet uploads, however many rows and runs uploaded it.
C4_UnaFacturaPorClave ==
    /\ \A i, j \in 1..Len(invoices) :
          (invoices[i].UID = invoices[j].UID
           /\ invoices[i].invoiceId = invoices[j].invoiceId) => i = j
    /\ (pcF = "idle" /\ salidaF = "ok" /\ ~hubo_falla)
          => \A k \in indice_inicio(hoja)..Len(hoja) :
                FilaSubida(hoja, k)
                  => Cardinality(DocsDe(invoices, uidF,
                                        Strip(StrDe(hoja[k].id)))) = 1

\* a second run has just met a row whose invoice the first run stored
C4_Witness ==
    /\ corridasF = 2 /\ pcF = "filas" /\ repite
    /\ hoja = <<Encabezado(AnchoHoja), FA1(AnchoHoja)>>
    /\ fila_k = 3
    /\ Cardinality(DocsDe(invoices, uidF, <<"A", "1">>)) = 1

\* C5: a row whose (UID, invoiceId) is already stored causes no write: the
\* collection and the created counter stay as they are; and a run that
\* repeats a run that ended without failure never changes the collection.
C5_ExistenteNoSeEscribe ==
    [][/\ (/\ pcF = "filas" /\ fila_k <= Len(hoja)
           /\ hoja[fila_k].n > COL_ID
           /\ DocsDe(invoices, uidF, Strip(StrDe(hoja[fila_k].id))) # {})
          => (invoices' = invoices /\ contador_creadas' = contador_creadas)
       /\ (pcF = "filas" /\ repite) => invoices' = invoices]_vars

\* the row of supplier 9 met the invoice A1 stored for supplier 7 by the row
\* before it, and left it as it was
C5_Witness ==
    /\ pcF = "filas"
    /\ hoja = <<Encabezado(AnchoHoja), FA1b(AnchoHoja), FA1(AnchoHoja)>>
    /\ fila_k = 4
    /\ contador_creadas = 1
    /\ \E i \in DocsDe(invoices, uidF, <<"A", "1">>) :
          invoices[i].supplierId = <<"7">>

\* C6 (as claimed): when extraer_descripcion_dian has finished for a matched
\* archive, by return or by exception, no member that it unpacked is left
\* in the directory.
C6_SinRestosDeExtraccion ==
    (dian.llamada /\ dian.zip # None)
        => \A m \in dian.escritos : m \notin DOMAIN facturas_dir

\* C7 (as claimed): extraer_descripcion_dian never raises; an unreadable
\* archive gives None and the row goes on to the store.
C7_DianNuncaLanza ==
    dian.llamada => (~dian.lanza /\ salidaF # "raise: zip")

\* C8 (as claimed): an error in one row does not end the run: a run that
\* found the header reads every row and closes the store connection.
C8_ErrorDeFilaNoAborta ==
    (pcF = "idle" /\ salidaF \notin {"ninguna", "sin encabezado"})
        => (fila_k > Len(hoja) /\ ~gestor_abierto)


\* the documents of the collection that belong to the tenant u, in order
DocsDeUID(coll, u) == SelectSeq(coll, LAMBDA d : d.UID = u)

\* the (UID, id) keys of the collection
Claves(coll) == {<<coll[i].UID, coll[i].id>> : i \in 1..Len(coll)}

\* a file that lacks a required column has been met by the running
\* procesar_archivos_csv
ColumnaFaltanteDetectada ==
    /\ pc \in {"csv_abrir", "csv_filas", "csv_fin", "subir"}
    /\ \E k \in 1..Len(Archivos) :
          k < archivo_i /\ csvs[Archivos[k]].estado = "faltan"

\* C16 (as claimed): once a CSV file without a required column is met, the
\* batch is aborted: no row is read after that and nothing is written to
\* the store by that run.
C16_ColumnaFaltanteAborta ==
    [][ColumnaFaltanteDetectada
          => /\ providers' = providers
             /\ pc' \notin {"csv_filas", "subir"}]_vars

\* C17: provider keys leave the store only in the clean-slate step, which
\* removes exactly the documents of its uid; no step of a run changes the
\* documents of another UID.
C17_SoloLimpiezaBorra ==
    [][/\ Claves(providers) \ Claves(providers') # {} => pc = "limpiar"
       /\ (pc = "limpiar" /\ pc' = "csv_abrir")
             => /\ providers' = SelectSeq(providers, LAMBDA d : d.UID # uid)
                /\ DocsDeUID(providers', uid) = <<>>
       /\ pc # "idle"
             => \A u \in UIDs \ {uid} :
                   DocsDeUID(providers', u) = DocsDeUID(providers, u)
       /\ pc = "idle" => providers' = providers]_vars

\* the clean slate of a run for u1 has emptied the documents that the run
\* before it left for u1, and the document of u2 is still there
C17_Witness ==
    /\ pc = "csv_abrir" /\ archivo_i = 1 /\ limpiar_antes /\ uid = "u1"
    /\ ultima.uid = "u1" /\ ultima.total > 0
    /\ DocsDeUID(providers, "u1") = <<>>
    /\ providers = <<ProveedorAjeno>>

\* ------------------------------------------------------------------------
\* The user scripts: onboarding_usuario.py, user_manager.py, pucs_user.py
\* ------------------------------------------------------------------------

MaxLlamadas == 3

\* bson.ObjectId of a 24-digit hexadecimal string
Oid(h) == <<"ObjectId", h>>

\* the strings that ObjectId accepts
O1 == <<"o", "1">>
O2 == <<"o", "2">>
ZZ == <<"z", "z">>

HexValidos == {O1, O2}

\* try: ObjectId(id_usuario) / except: id_usuario
ConvertirUid(id_usuario) ==
    IF id_usuario \in HexValidos THEN Oid(id_usuario) ELSE id_usuario

EmailA == <<"a", "@", "x", ".", "c", "o">>
EmailB == <<"b", "@", "x", ".", "c", "o">>

UsuarioDe(h, email) ==
    [_id |-> Oid(h), name |-> "Ana", lastname |-> "Paz", email |-> email,
     phone |-> "300", password |-> <<"$argon2id", 1, "pw">>,
     num_consecutivo |-> 1, newUser |-> TRUE, verified |-> TRUE]

\* the documents that crear_modules and crear_integration write
ModuloDe(h, name) == [UID |-> Oid(h), name |-> name]
IntegracionDe(h) == [UID |-> Oid(h), name |-> "Siigo OnPremise"]

UsersT == {<<>>, <<UsuarioDe(O1, EmailA)>>, <<UsuarioDe(O1, EmailA), UsuarioDe(O2, EmailB)>>}

ModulesT == {<<>>, <<ModuloDe(O1, "costos"), ModuloDe(O1, "gastos")>>, <<ModuloDe(O1, "costos"), ModuloDe(O2, "costos"), ModuloDe(O1, "gastos")>>}

IntegrationsT == {<<>>, <<IntegracionDe(O1)>>, <<IntegracionDe(O2), IntegracionDe(O1)>>}

\* what the callers pass as id_usuario: nothing, the hexadecimal string of
\* an ObjectId, or a string that ObjectId rejects
IdsUsuarioT == {None, O1, O2, ZZ}

\* collection.find_one({"email": email}): the first match as a one-element
\* sequence, or the empty sequence for None
find_one_email(coll, email) ==
    IF \E i \in 1..Len(coll) : coll[i].email = email
    THEN <<coll[SetMin({i \in 1..Len(coll) : coll[i].email = email})]>>
    ELSE <<>>

\* collection.delete_one({"_id": uid}): the first match is removed
delete_one_id(coll, uid_) ==
    IF \E i \in 1..Len(coll) : coll[i]._id = uid_
    THEN [k \in 1..(Len(coll) - 1) |->
            IF k < SetMin({i \in 1..Len(coll) : coll[i]._id = uid_})
            THEN coll[k] ELSE coll[k + 1]]
    ELSE coll

\* collection.delete_many({"UID": uid})
delete_many_UID(coll, uid_) == SelectSeq(coll, LAMBDA d : d.UID # uid_)

\* the uid that limpiar_asociaciones_usuario works on; None when no id is
\* given and no user has the email (onboarding_usuario.py 152-168)
UidALimpiar(email_usuario, id_usuario) ==
    IF id_usuario # None THEN ConvertirUid(id_usuario)
    ELSE IF find_one_email(users, email_usuario) = <<>> THEN None
    ELSE find_one_email(users, email_usuario)[1]._id

LlamadaLimpiar(email_usuario, id_usuario, ok, ret) ==
    [SinLlamadaUsr EXCEPT !.fn = "limpiar_asociaciones_usuario", !.ok = ok,
                          !.ret = ret, !.email = email_usuario,
                          !.id_usuario = id_usuario]

\* the body of limpiar_asociaciones_usuario once uid is known; falla names
\* the collections whose operation raises
LimpiarCon(email_usuario, id_usuario, falla, uid_) ==
    IF "users" \in falla
    THEN /\ usr' = LlamadaLimpiar(email_usuario, id_usuario, FALSE, None)
         /\ UNCHANGED <<users, modules, integrations>>
    ELSE IF uid_ = None
    THEN /\ usr' = LlamadaLimpiar(email_usuario, id_usuario, TRUE, None)
         /\ UNCHANGED <<users, modules, integrations>>
    ELSE /\ users' = delete_one_id(users, uid_)
         /\ modules' = IF "modules" \in falla THEN modules
                       ELSE delete_many_UID(modules, uid_)
         /\ integrations' = IF "integrations" \in falla THEN integrations
                            ELSE delete_many_UID(integrations, uid_)
         /\ usr' = LlamadaLimpiar(email_usuario, id_usuario, TRUE, uid_)

\* onboarding_usuario.py 146-189
limpiar_asociaciones_usuario ==
    /\ llamadas < MaxLlamadas
    /\ \E email_usuario \in {EmailA, EmailB},
          id_usuario \in IdsUsuarioT,
          falla \in SUBSET {"users", "modules", "integrations"} :
          LimpiarCon(email_usuario, id_usuario, falla,
                     UidALimpiar(email_usuario, id_usuario))
    /\ llamadas' = llamadas + 1
    /\ UNCHANGED <<client_puc, varsProv, varsFact, txt, varsMas>>

\* the uid of the user whose codes pucs_user.py keeps (pucs_user.py 32)
UID_FILTER == Oid(O1)

Codigos == {"11", "12", "13"}

\* the dictionaries get_pucs_user can return: code -> description
PucsT == {[k \in K |-> "cuenta"] : K \in SUBSET Codigos}

PucDoc(h, pucs) == [uid |-> Oid(h), pucs |-> pucs]

\* the client_puc collection before the first call: empty, only another
\* user's document, a document of the user, one whose list repeats a code,
\* one without the "pucs" key, and one that follows another user's
ClientPucT == {<<>>, <<PucDoc(O2, <<"13">>)>>, <<PucDoc(O1, <<"11">>)>>, <<PucDoc(O1, <<"11", "11", "12">>)>>, <<PucDoc(O1, Absent)>>, <<PucDoc(O2, <<"13">>), PucDoc(O1, <<"12">>)>>}

\* set(lista)
SetDe(lista) == {lista[i] : i \in 1..Len(lista)}

\* list(conjunto): the elements once each, in an order that the set's
\* hashing decides
Listas(S) == {l \in [1..Cardinality(S) -> S] : SetDe(l) = S}

\* collection.find_one({"uid": uid}): the first match as a one-element
\* sequence, or the empty sequence for None
find_one_uid(coll, uid_) ==
    IF \E i \in 1..Len(coll) : coll[i].uid = uid_
    THEN <<coll[SetMin({i \in 1..Len(coll) : coll[i].uid = uid_})]>>
    ELSE <<>>

\* pucs_user.py 85-94: the union of the stored codes and the new ones
UnionPucs_SoloNuevos(doc_existente, nuevos_pucs) == nuevos_pucs

UnionPucs(doc_existente, nuevos_pucs) ==
    IF doc_existente # <<>> /\ doc_existente[1].pucs # Absent
    THEN SetDe(doc_existente[1].pucs) \cup nuevos_pucs
    ELSE nuevos_pucs

\* collection.update_one({"uid": uid}, {"$set": {"uid": uid, "pucs": l}},
\* upsert=True)
update_one_upsert(coll, uid_, pucs_final) ==
    IF \E i \in 1..Len(coll) : coll[i].uid = uid_
    THEN [coll EXCEPT ![SetMin({i \in 1..Len(coll) : coll[i].uid = uid_})] = [uid |-> uid_, pucs |-> pucs_final]]
    ELSE Append(coll, [uid |-> uid_, pucs |-> pucs_final])

\* the codes stored for the user
CodigosGuardados(coll) ==
    IF find_one_uid(coll, UID_FILTER) = <<>> THEN {}
    ELSE IF find_one_uid(coll, UID_FILTER)[1].pucs = Absent THEN {}
    ELSE SetDe(find_one_uid(coll, UID_FILTER)[1].pucs)

LlamadaPucs(pucs, ok) ==
    [SinLlamadaUsr EXCEPT !.fn = "upload_pucs", !.ok = ok,
                          !.antes = CodigosGuardados(client_puc),
                          !.claves = DOMAIN pucs]

\* pucs_user.py 71-108; falla: an operation on the store raises, which
\* the function catches and logs
upload_pucs ==
    /\ llamadas < MaxLlamadas
    /\ \E pucs \in PucsT, falla \in BOOLEAN :
          IF falla
          THEN /\ client_puc' = client_puc
               /\ usr' = LlamadaPucs(pucs, FALSE)
          ELSE /\ \E pucs_final \in Listas(UnionPucs(find_one_uid(client_puc, UID_FILTER), DOMAIN pucs)) :
                     client_puc' = update_one_upsert(client_puc, UID_FILTER, pucs_final)
               /\ usr' = LlamadaPucs(pucs, TRUE)
    /\ llamadas' = llamadas + 1
    /\ UNCHANGED <<users, modules, integrations, varsProv, varsFact, txt, varsMas>>

EmailAMay == <<"a", "@", "X", ".", "C", "O">>
EmailMalo == <<"a", "x", ".", "c", "o">>

\* the positions of "@" in the address
Arrobas(e) == {i \in 1..Len(e) : e[i] = "@"}

\* pydantic's EmailStr accepts an address with one "@", a local part and a
\* dotted domain (models/user.py 17)
EmailValido(e) ==
    /\ Cardinality(Arrobas(e)) = 1
    /\ SetMin(Arrobas(e)) > 1
    /\ SetMin(Arrobas(e)) + 2 < Len(e)
    /\ e[SetMin(Arrobas(e)) + 1] # "."
    /\ e[Len(e)] # "."
    /\ \E i \in (SetMin(Arrobas(e)) + 2)..(Len(e) - 1) : e[i] = "."

\* the value an EmailStr field holds: the local part as given and the
\* domain in lower case
EmailStr(e) ==
    SubSeq(e, 1, SetMin(Arrobas(e))) \o LowerStr(SubSeq(e, SetMin(Arrobas(e)) + 1, Len(e)))

\* PasswordHasher().hash: an argon2 string with a random salt
hasher_hash(password_plain, salt) == <<"$argon2id", salt, password_plain>>

\* models/user.py 14-31 as user_manager.py 22-32 builds it
User(_id, d, password_hash) ==
    [_id |-> _id, name |-> d.name, lastname |-> d.lastname,
     email |-> EmailStr(d.email), phone |-> d.phone,
     password |-> password_hash, num_consecutivo |-> d.num_consecutivo,
     newUser |-> TRUE, verified |-> TRUE]

\* what a UserManager is constructed with (user_manager.py 7-14)
UserManagerDe(name, email, phone, num_consecutivo) ==
    [name |-> name, lastname |-> "Paz", email |-> email, phone |-> phone,
     password_plain |-> "pw", num_consecutivo |-> num_consecutivo]

UserManagersT == {UserManagerDe("Ana", EmailB, "300", 1), UserManagerDe("Luz", EmailAMay, "311", 7), UserManagerDe("Ana", EmailMalo, "300", 1)}

LlamadaCrear(d, ok, ret) ==
    [SinLlamadaUsr EXCEPT !.fn = "create_user", !.ok = ok, !.ret = ret,
                          !.dados = d]

\* user_manager.py 16-33; falla: init_db or the insert raises
create_user ==
    /\ llamadas < MaxLlamadas
    /\ \E d \in UserManagersT, salt \in {1, 2}, falla \in {"no", "init_db", "insert"} :
          IF falla # "no" \/ ~EmailValido(d.email)
          THEN /\ users' = users
               /\ usr' = LlamadaCrear(d, FALSE, None)
          ELSE /\ users' = Append(users, User(Oid(<<"n", ToString(llamadas + 1)>>), d, hasher_hash(d.password_plain, salt)))
               /\ usr' = LlamadaCrear(d, TRUE, User(Oid(<<"n", ToString(llamadas + 1)>>), d, hasher_hash(d.password_plain, salt)))
    /\ llamadas' = llamadas + 1
    /\ UNCHANGED <<modules, integrations, client_puc, varsProv, varsFact, txt, varsMas>>

InitUsuario ==
    /\ users \in UsersT
    /\ modules \in ModulesT
    /\ integrations \in IntegrationsT
    /\ client_puc = <<>>
    /\ usr = SinLlamadaUsr
    /\ llamadas = 0
    /\ txt = SinLlamada
    /\ MasEnReposo
    /\ ProvEnReposo
    /\ FactEnReposo

NextUsuario == limpiar_asociaciones_usuario \/ create_user

SpecUsuario == InitUsuario /\ [][NextUsuario]_vars

InitPucs ==
    /\ client_puc \in ClientPucT
    /\ users = <<>>
    /\ modules = <<>>
    /\ integrations = <<>>
    /\ usr = SinLlamadaUsr
    /\ llamadas = 0
    /\ txt = SinLlamada
    /\ MasEnReposo
    /\ ProvEnReposo
    /\ FactEnReposo

NextPucs == upload_pucs

SpecPucs == InitPucs /\ [][NextPucs]_vars

\* ------------------------------------------------------------------------
\* Claims on the user scripts (SpecUsuario, SpecPucs)
\* ------------------------------------------------------------------------

\* C18 (as claimed): limpiar_asociaciones_usuario leaves the users
\* collection as it was: the user it cleans for is still there.
C18_UsuarioNoSeBorra ==
    [][usr'.fn = "limpiar_asociaciones_usuario" /\ llamadas' # llamadas
          => users' = users]_vars

\* the list stored for the user of pucs_user.py
PucsGuardados == find_one_uid(client_puc, UID_FILTER)[1].pucs

\* how many times the code is in the list
Veces(lista, c) == Cardinality({i \in 1..Len(lista) : lista[i] = c})

\* C19: after a successful upload_pucs the stored list holds every code
\* that was stored before the call and every key of the uploaded
\* dictionary, each exactly once.
C19_UnionSinRepetidos ==
    (usr.fn = "upload_pucs" /\ usr.ok)
        => /\ find_one_uid(client_puc, UID_FILTER) # <<>>
           /\ \A c \in usr.antes \cup usr.claves : Veces(PucsGuardados, c) = 1

\* a second upload brought one code that was stored and one that was not
C19_Witness ==
    /\ usr.fn = "upload_pucs" /\ usr.ok /\ llamadas >= 2
    /\ usr.antes = {"11", "12"}
    /\ usr.claves = {"12", "13"}
    /\ Len(PucsGuardados) = 3

\* C20 (as claimed): create_user appends one document to users and returns
\* a User whose email, name, phone and num_consecutivo are the values the
\* UserManager was given, with newUser and verified true and a password.
C20_UsuarioComoSeDio ==
    (usr.fn = "create_user" /\ usr.ok)
        => /\ users[Len(users)] = usr.ret
           /\ usr.ret.email = usr.dados.email
           /\ usr.ret.name = usr.dados.name
           /\ usr.ret.phone = usr.dados.phone
           /\ usr.ret.num_consecutivo = usr.dados.num_consecutivo
           /\ usr.ret.newUser /\ usr.ret.verified
           /\ usr.ret.password # None

\* what holds of create_user: the same with the email as EmailStr keeps it
C20_ConEmailNormalizado ==
    (usr.fn = "create_user" /\ usr.ok)
        => /\ users[Len(users)] = usr.ret
           /\ usr.ret.email = EmailStr(usr.dados.email)
           /\ usr.ret.name = usr.dados.name
           /\ usr.ret.phone = usr.dados.phone
           /\ usr.ret.num_consecutivo = usr.dados.num_consecutivo
           /\ usr.ret.newUser /\ usr.ret.verified
           /\ usr.ret.password # None

\* ------------------------------------------------------------------------
\* Two batch processes run procesar_y_subir_facturas at the same time
\* ------------------------------------------------------------------------

\* the sheets of the concurrent runs: every row has all its cells
HojasCarrera ==
    {<<Encabezado(AnchoHoja), FA1(AnchoHoja)>>,
     <<Encabezado(AnchoHoja), FA1(AnchoHoja), FA2(AnchoHoja)>>,
     <<Encabezado(AnchoHoja), FA2(AnchoHoja), FA1b(AnchoHoja)>>}

\* lines 164-188 for the row fila of the process pr, up to the answer of
\* find_one: the row is passed over, or the process goes on to insert_one
TrasBuscar(pr, fila, id_factura_original) ==
    IF FilaOmitida(fila) \/ id_factura_original \in pr.procesadas
    THEN [pr EXCEPT !.k = pr.k + 1]
    ELSE IF YaExiste(invoices, pr.uid, Strip(StrDe(fila.id)))
    THEN [pr EXCEPT !.k = pr.k + 1,
                    !.procesadas = pr.procesadas \cup {id_factura_original}]
    ELSE [pr EXCEPT !.fase = "insertar",
                    !.procesadas = pr.procesadas \cup {id_factura_original}]

\* the process p reads its next row and asks the store whether the invoice
\* exists (subir_facturas_mongodb.py 164-188); with no archive in
\* data/facturas extraer_descripcion_dian gives None
BuscarP(p) ==
    /\ carrera[p].fase = "buscar"
    /\ carrera[p].k <= Len(carrera[p].hoja)
    /\ carrera' = [carrera EXCEPT ![p] =
          TrasBuscar(carrera[p], carrera[p].hoja[carrera[p].k],
             extraer_id_factura(Strip(StrDe(carrera[p].hoja[carrera[p].k].desc))))]
    /\ UNCHANGED invoices

\* the document that the process writes for the row fila (lines 189-198)
DocDeFila(u, fila) ==
    invoice_data(u, Strip(limpiar_nit_factura(StrDe(fila.nit))),
                 Strip(StrDe(fila.desc)), Strip(StrDe(fila.id)),
                 Strip(StrDe(fila.tipo)), None)

\* the process p writes the invoice that it did not find (lines 199-205);
\* the collection has no index that could reject the document
InsertarP(p) ==
    /\ carrera[p].fase = "insertar"
    /\ invoices' = Append(invoices,
          DocDeFila(carrera[p].uid, carrera[p].hoja[carrera[p].k]))
    /\ carrera' = [carrera EXCEPT ![p].fase = "buscar", ![p].k = carrera[p].k + 1]

\* lines 206-207
FinP(p) ==
    /\ carrera[p].fase = "buscar"
    /\ carrera[p].k > Len(carrera[p].hoja)
    /\ carrera' = [carrera EXCEPT ![p].fase = "fin"]
    /\ UNCHANGED invoices

ProcesoDe(u, h) ==
    [uid |-> u, hoja |-> h, k |-> indice_inicio(h), procesadas |-> {}, fase |-> "buscar"]

InitCarrera ==
    /\ carrera \in [{1, 2} -> {ProcesoDe(u, h) : u \in UIDs, h \in HojasCarrera}]
    /\ invoices = <<>>
    /\ facturas_dir = <<>>
    /\ hoja = <<>>
    /\ pcF = "idle"
    /\ uidF = "u1"
    /\ fila_k = 0
    /\ facturas_procesadas = {}
    /\ contador_creadas = 0
    /\ gestor_abierto = FALSE
    /\ salidaF = "ninguna"
    /\ corridasF = 0
    /\ dian = SinDian
    /\ hubo_falla = FALSE
    /\ repite = FALSE
    /\ txt = SinLlamada
    /\ UsrEnReposo
    /\ ProvEnReposo
    /\ ActEnReposo /\ RzEnReposo /\ EnvEnReposo /\ ExcelEnReposo

\* the variables that the concurrent processes leave alone
FueraDeCarrera ==
    <<facturas_dir, hoja, pcF, uidF, fila_k, facturas_procesadas,
      contador_creadas, gestor_abierto, salidaF, corridasF, dian, hubo_falla,
      repite, varsProv, txt, varsUsr, act, rz, env_file, client_pucs, xl>>

NextCarrera ==
    \E p \in {1, 2} :
        /\ BuscarP(p) \/ InsertarP(p) \/ FinP(p)
        /\ UNCHANGED FueraDeCarrera

SpecCarrera == InitCarrera /\ [][NextCarrera]_vars

\* ------------------------------------------------------------------------
\* actualizar_proveedores_de_modelo_terceros.py: actualizar_proveedores
\* ------------------------------------------------------------------------

MaxRegistros == 2

CamposFiscales ==
    {"fiscalResponsability", "activity", "city", "businessName", "branchOffice"}

\* a record of procesar_csv_terceros (lines 91-98)
Registro(nit, activity) ==
    [nit |-> nit, fiscalResponsability |-> <<>>, activity |-> activity,
     city |-> <<>>, businessName |-> <<>>, branchOffice |-> <<>>]

RegistrosT == {Registro(<<"9">>, <<"A">>), Registro(<<"9">>, <<>>), Registro(<<"8">>, <<"A">>), Registro(<<>>, <<"A">>)}

\* the providers collection before the call
ProvidersT == {<<>>, <<NuevoProveedor("u1", FilaBase)>>, <<ProveedorAjeno, NuevoProveedor("u1", FilaBase)>>}

\* line 129: the providers of the uid by id; the position in the
\* collection stands for _id, and a later document wins in the dict
mapa_proveedor_por_id(coll, u) ==
    [n \in {coll[i].id : i \in {j \in 1..Len(coll) : coll[j].UID = u /\ Truthy(coll[j].id)}} |->
        SetMax({i \in 1..Len(coll) : coll[i].UID = u /\ coll[i].id = n})]

\* update_one({'_id': id_mongo}, {'$set': ...}) of lines 138-151 on the
\* document doc
ConDatosFiscales(doc, registro) ==
    [f \in DOMAIN doc \cup {"ultima_actualizacion"} \cup {c \in CamposFiscales : Truthy(registro[c])} |->
        IF f = "ultima_actualizacion" THEN <<"now">>
        ELSE IF f \in CamposFiscales /\ Truthy(registro[f]) THEN registro[f]
        ELSE doc[f]]

Sumar(estadisticas, campo, n) ==
    [estadisticas EXCEPT ![campo] = estadisticas[campo] + n]

\* the variables that actualizar_proveedores leaves alone
FueraDeActualizar ==
    <<csvs, pc, uid, limpiar_antes, archivo_i, fila_i, proveedores_dict,
      registros_fallidos, proveedores, doc_i, creados, actualizados, errores,
      sin_cambios, salida, ultima, previa, mismo_lote, lote_usado,
      vacio_inicio, corridas, varsFact, txt, varsUsr, carrera, rz, env_file,
      client_pucs, xl>>

\* lines 108-129; falla: the configuration, the connection or find raises,
\* which the outer except turns into an entry of 'errores'
IniciarActualizar(datos, u, falla) ==
    /\ act.pc = "idle"
    /\ act.corridas < MaxCorridas
    /\ act' = [pc |-> IF falla THEN "idle" ELSE "registros",
               uid |-> u, datos |-> datos, i |-> 1,
               estadisticas |-> IF falla THEN Sumar(EstadisticasCero, "errores", 1)
                                ELSE EstadisticasCero,
               corridas |-> act.corridas + 1]
    /\ UNCHANGED <<providers, FueraDeActualizar>>

\* lines 130-166 for the record registro whose nit has the document at
\* position id_mongo (0: none); resultado is what the store does with
\* find_one and update_one
PasoRegistro(registro, id_mongo, resultado, est) ==
    IF ~Truthy(registro.nit) \/ id_mongo = 0
    THEN /\ act' = [act EXCEPT !.i = act.i + 1,
                               !.estadisticas = Sumar(est, "registros_fallidos_fiscal", 1)]
         /\ UNCHANGED providers
    ELSE IF resultado = "find_one falla"
    THEN /\ act' = [act EXCEPT !.pc = "idle",
                               !.estadisticas = Sumar(est, "errores", 1)]
         /\ UNCHANGED providers
    ELSE IF resultado = "update_one falla"
    THEN /\ act' = [act EXCEPT !.i = act.i + 1,
                               !.estadisticas = Sumar(est, "proveedores_actualizados_fiscal", -1)]
         /\ UNCHANGED providers
    ELSE IF resultado = "modified_count 0"
    THEN /\ act' = [act EXCEPT !.i = act.i + 1, !.estadisticas = est]
         /\ UNCHANGED providers
    ELSE /\ act' = [act EXCEPT !.i = act.i + 1,
                               !.estadisticas = Sumar(est, "proveedores_actualizados_fiscal", 1)]
         /\ providers' = [providers EXCEPT ![id_mongo] = ConDatosFiscales(providers[id_mongo], registro)]

\* mapa_proveedor_por_id.get(nit), 0 for None
IdMongo(coll, u, nit) ==
    IF nit \in DOMAIN mapa_proveedor_por_id(coll, u)
    THEN mapa_proveedor_por_id(coll, u)[nit] ELSE 0

\* one iteration of the loop of lines 130-166
ActualizarRegistro(resultado) ==
    /\ act.pc = "registros"
    /\ act.i <= Len(act.datos)
    /\ PasoRegistro(act.datos[act.i],
                    IdMongo(providers, act.uid, act.datos[act.i].nit),
                    resultado,
                    Sumar(act.estadisticas, "registros_procesados_fiscal", 1))
    /\ UNCHANGED FueraDeActualizar

\* lines 170-175: the statistics are returned
FinActualizar ==
    /\ act.pc = "registros"
    /\ act.i > Len(act.datos)
    /\ act' = [act EXCEPT !.pc = "idle"]
    /\ UNCHANGED <<providers, FueraDeActualizar>>

InitActualizar ==
    /\ providers \in ProvidersT
    /\ act = SinActualizar
    /\ csvs = Lote(ArchivoCsv("ok", <<>>), ArchivoCsv("ok", <<>>))
    /\ pc = "idle"
    /\ uid = "u1"
    /\ limpiar_antes = FALSE
    /\ archivo_i = 1
    /\ fila_i = 0
    /\ proveedores_dict = <<>>
    /\ registros_fallidos = <<>>
    /\ proveedores = <<>>
    /\ doc_i = 0
    /\ creados = 0 /\ actualizados = 0 /\ errores = 0 /\ sin_cambios = 0
    /\ salida = "ninguna"
    /\ ultima = SinCorrida /\ previa = SinCorrida
    /\ mismo_lote = FALSE
    /\ lote_usado = csvs
    /\ vacio_inicio = TRUE
    /\ corridas = 0
    /\ FactEnReposo
    /\ txt = SinLlamada
    /\ UsrEnReposo
    /\ CarreraEnReposo /\ RzEnReposo /\ EnvEnReposo /\ ExcelEnReposo

ResultadosStore == {"modified_count 1", "modified_count 0", "update_one falla", "find_one falla"}

NextActualizar ==
    \/ \E datos \in SeqsHasta(RegistrosT, MaxRegistros), u \in UIDs, falla \in BOOLEAN :
          IniciarActualizar(datos, u, falla)
    \/ \E resultado \in ResultadosStore : ActualizarRegistro(resultado)
    \/ FinActualizar

SpecActualizar == InitActualizar /\ [][NextActualizar]_vars

\* ------------------------------------------------------------------------
\* renombrar_zips.py: procesar_archivos_zip
\* ------------------------------------------------------------------------

\* the invoice number that the text of a well formed PDF gives
N7 == <<"N", "7">>

\* data/facturas before the first run. A member of type pdf_num has the
\* line "Número de Factura", pdf_sin has not, pdf_load makes pdf.load()
\* raise and pdf_ctor is a file that PDFQuery(ruta_pdf) cannot open or parse
DirsRz ==
    {<<>>,
     (A1zip :> Zip(<<Miembro(Fxml, "otro"), Miembro(Fpdf, "pdf_num")>>, 0))
        @@ (A2zip :> Zip(<<Miembro(Gpdf, "pdf_ctor"), Miembro(Fpdf, "pdf_num")>>, 0)),
     (A1zip :> Zip(<<Miembro(Fpdf, "pdf_load"), Miembro(Gpdf, "pdf_num")>>, 0))
        @@ (A2zip :> Zip(<<Miembro(Gpdf, "pdf_sin")>>, 0)),
     (A1zip :> Entrada("otro"))
        @@ (A2zip :> Zip(<<Miembro(Gpdf, "pdf_num")>>, 0)),
     (A1zip :> Zip(<<Miembro(SubDir, "dir"), Miembro(SubPdf, "pdf_sin")>>, 0))
        @@ (A2zip :> Zip(<<Miembro(Fxml, "otro"), Miembro(Gpdf, "pdf_num")>>, 1))}

\* extraer_zip (lines 23-28) of the archive z into the directory target
ExtraerEn(z, target) ==
    IF ~z.legible
    THEN [target |-> target, lanza |-> TRUE, nombres |-> <<>>]
    ELSE IF z.falla_en > 0
    THEN [target |-> Escribir(target, z.miembros, z.falla_en), lanza |-> TRUE,
          nombres |-> <<>>]
    ELSE [target |-> Escribir(target, z.miembros, Len(z.miembros)),
          lanza |-> FALSE,
          nombres |-> [i \in 1..Len(z.miembros) |-> z.miembros[i].nombre]]

\* obtener_numero_factura_pdf (lines 31-50) on a file of the given type.
\* When PDFQuery(ruta_pdf) raises, the handler returns None, but the
\* finally clause executes "del pdf" with pdf unbound: UnboundLocalError
\* leaves the function
obtener_numero_factura_pdf(tipo) ==
    IF tipo = "pdf_num" THEN [lanza |-> FALSE, valor |-> N7]
    ELSE IF tipo = "pdf_ctor" THEN [lanza |-> TRUE, valor |-> None]
    ELSE [lanza |-> FALSE, valor |-> None]

RECURSIVE BuscarNumero(_, _, _)
\* lines 77-83: the number of the first member ending in .pdf that gives
\* one, looking at the members from the k-th on
BuscarNumero(target, nombres, k) ==
    IF k > Len(nombres) THEN [lanza |-> FALSE, valor |-> None, llamado |-> FALSE]
    ELSE IF ~EndsWith(nombres[k], PuntoPdf)
    THEN BuscarNumero(target, nombres, k + 1)
    ELSE IF obtener_numero_factura_pdf(target[nombres[k]].tipo).lanza
    THEN [lanza |-> TRUE, valor |-> None, llamado |-> TRUE]
    ELSE IF Truthy(obtener_numero_factura_pdf(target[nombres[k]].tipo).valor)
    THEN [lanza |-> FALSE, llamado |-> TRUE,
          valor |-> obtener_numero_factura_pdf(target[nombres[k]].tipo).valor]
    ELSE [BuscarNumero(target, nombres, k + 1) EXCEPT !.llamado = TRUE]

\* renombrar_archivo_zip (lines 53-60): os.rename replaces a file that has
\* the new name; a failure is caught and logged
renombrar_archivo_zip(dir, archivo_zip, nuevo_nombre, falla) ==
    IF falla THEN dir
    ELSE [f \in (DOMAIN dir \ {archivo_zip}) \cup {nuevo_nombre \o PuntoZip} |->
            IF f = nuevo_nombre \o PuntoZip THEN dir[archivo_zip] ELSE dir[f]]

\* limpiar_archivos_extraidos (lines 93-100): a failure of rmtree is caught
\* and logged
limpiar_archivos_extraidos(target, falla) == IF falla THEN target ELSE <<>>

\* what the last call of obtener_numero_factura_pdf did
ResultadoPdf(b) ==
    IF ~b.llamado THEN rz.pdf ELSE IF b.lanza THEN "raise"
    ELSE IF b.valor = None THEN "None" ELSE "numero"

\* lines 72-91 once the archive is unpacked (x) and its members are
\* looked at (b)
TrasBuscarNumero(archivo_zip, x, b, falla_rename, falla_rmtree) ==
    IF b.lanza
    THEN rz' = [rz EXCEPT !.pc = "idle", !.target = x.target,
                          !.salida = "raise: pdf", !.pdf = "raise"]
    ELSE rz' = [rz EXCEPT !.i = rz.i + 1,
                          !.dir = IF b.valor = None THEN rz.dir
                                  ELSE renombrar_archivo_zip(rz.dir, archivo_zip, b.valor, falla_rename),
                          !.target = limpiar_archivos_extraidos(x.target, falla_rmtree),
                          !.pdf = ResultadoPdf(b)]

\* lines 72-91 for the archive archivo_zip, x being what extraer_zip did
TrasExtraerEn(archivo_zip, x, falla_rename, falla_rmtree) ==
    IF x.lanza
    THEN rz' = [rz EXCEPT !.pc = "idle", !.target = x.target,
                          !.salida = "raise: zip"]
    ELSE TrasBuscarNumero(archivo_zip, x, BuscarNumero(x.target, x.nombres, 1),
                          falla_rename, falla_rmtree)

\* the variables that procesar_archivos_zip leaves alone
FueraDeZips ==
    <<varsProv, varsFact, txt, varsUsr, carrera, act, env_file, client_pucs, xl>>

\* lines 63-70: the listing of data/facturas
IniciarZips(lista) ==
    /\ rz.pc = "idle"
    /\ rz.corridas < MaxCorridas
    /\ lista \in Ordenes(NombresZip(rz.dir))
    /\ rz' = [rz EXCEPT !.pc = IF lista = <<>> THEN "idle" ELSE "zips",
                        !.salida = IF lista = <<>> THEN "sin zips" ELSE "en curso",
                        !.lista = lista, !.i = 1, !.pdf = "ninguno",
                        !.corridas = rz.corridas + 1]
    /\ UNCHANGED FueraDeZips

\* one iteration of the loop of lines 72-91. An archive of the listing
\* that a rename of this run removed cannot be opened
ProcesarZip(falla_rename, falla_rmtree) ==
    /\ rz.pc = "zips"
    /\ rz.i <= Len(rz.lista)
    /\ IF rz.lista[rz.i] \notin DOMAIN rz.dir
       THEN rz' = [rz EXCEPT !.pc = "idle", !.salida = "raise: zip"]
       ELSE TrasExtraerEn(rz.lista[rz.i],
                          ExtraerEn(rz.dir[rz.lista[rz.i]], rz.target),
                          falla_rename, falla_rmtree)
    /\ UNCHANGED FueraDeZips

FinZips ==
    /\ rz.pc = "zips"
    /\ rz.i > Len(rz.lista)
    /\ rz' = [rz EXCEPT !.pc = "idle", !.salida = "ok"]
    /\ UNCHANGED FueraDeZips

InitZips ==
    /\ \E dir \in DirsRz : rz = [SinZips EXCEPT !.dir = dir]
    /\ ProvEnReposo
    /\ FactEnReposo
    /\ txt = SinLlamada
    /\ UsrEnReposo
    /\ CarreraEnReposo /\ ActEnReposo /\ EnvEnReposo /\ ExcelEnReposo

NextZips ==
    \/ \E lista \in Ordenes(NombresZip(rz.dir)) : IniciarZips(lista)
    \/ \E falla_rename \in BOOLEAN, falla_rmtree \in BOOLEAN :
          ProcesarZip(falla_rename, falla_rmtree)
    \/ FinZips

SpecZips == InitZips /\ [][NextZips]_vars

\* ------------------------------------------------------------------------
\* onboarding_user.py: update_uid_in_env
\* ------------------------------------------------------------------------

NL == "\n"

UidUserIgual == <<"U", "I", "D", "_", "U", "S", "E", "R", "=">>

LineaA == <<"A", "=", "1">>
LineaB == <<"B", "=", "2">>

\* the contents of .env before the first call: no file, an empty file,
\* files without and with UID_USER lines (plain, indented, commented out),
\* and files whose last line has no newline
EnvsT ==
    {None,
     <<>>,
     LineaA \o <<NL>>,
     LineaA,
     UidUserIgual \o <<"o", NL>> \o LineaA \o <<NL>>,
     LineaA \o <<NL, " ">> \o UidUserIgual \o <<"o", NL>> \o LineaB \o <<NL>>,
     LineaA \o <<NL, "#">> \o UidUserIgual \o <<"p", NL>>,
     UidUserIgual \o <<"o">>,
     LineaA \o <<NL>> \o UidUserIgual \o <<"o", NL>> \o LineaB,
     <<"#", " ">> \o UidUserIgual \o <<"o", NL>>}

UidsEnv == {<<"o">>, <<"x">>, <<"y", "2">>}

RECURSIVE readlines(_)
\* f.readlines(): the lines with their newline; the last one has none when
\* the file does not end with a newline
readlines(s) ==
    IF s = <<>> THEN <<>>
    ELSE IF \A i \in 1..Len(s) : s[i] # NL THEN <<s>>
    ELSE <<SubSeq(s, 1, SetMin({i \in 1..Len(s) : s[i] = NL}))>>
           \o readlines(SubSeq(s, SetMin({i \in 1..Len(s) : s[i] = NL}) + 1, Len(s)))

\* line.strip(): blanks and the newline go
StripLinea(s) ==
    IF \A i \in 1..Len(s) : s[i] \in {" ", NL} THEN <<>>
    ELSE SubSeq(s, SetMin({i \in 1..Len(s) : s[i] \notin {" ", NL}}),
                   SetMax({i \in 1..Len(s) : s[i] \notin {" ", NL}}))

StartsWith(s, pre) == Len(s) >= Len(pre) /\ SubSeq(s, 1, Len(pre)) = pre

\* line 360: the lines that are dropped
EsLineaUid(line) ==
    \/ StartsWith(StripLinea(line), UidUserIgual)
    \/ StartsWith(StripLinea(line), <<"#">> \o UidUserIgual)

NoEsLineaUid(line) == ~EsLineaUid(line)

RECURSIVE writelines(_)
\* f.writelines(lines): the lines one after the other, nothing added
writelines(lines) ==
    IF lines = <<>> THEN <<>> ELSE lines[1] \o writelines(Tail(lines))

\* the content of the file after update_uid_in_env(uid_) (lines 334-376)
ContenidoTras(contenido, uid_) ==
    IF contenido = None THEN UidUserIgual \o uid_ \o <<NL>>
    ELSE writelines(SelectSeq(readlines(contenido), NoEsLineaUid)
                    \o <<UidUserIgual \o uid_ \o <<NL>>>>)

update_uid_in_env(uid_) ==
    /\ env_file.llamadas < MaxLlamadas
    /\ env_file' = [contenido |-> ContenidoTras(env_file.contenido, uid_),
                    antes |-> env_file.contenido, uid |-> uid_,
                    llamadas |-> env_file.llamadas + 1]
    /\ UNCHANGED <<varsProv, varsFact, txt, varsUsr, carrera, act, rz, client_pucs, xl>>

InitEnv ==
    /\ \E contenido \in EnvsT : env_file = [SinEnv EXCEPT !.contenido = contenido]
    /\ ProvEnReposo
    /\ FactEnReposo
    /\ txt = SinLlamada
    /\ UsrEnReposo
    /\ CarreraEnReposo /\ ActEnReposo /\ RzEnReposo /\ ExcelEnReposo

NextEnv == \E uid_ \in UidsEnv : update_uid_in_env(uid_)

SpecEnv == InitEnv /\ [][NextEnv]_vars

\* ------------------------------------------------------------------------
\* onboarding_causacion.py: procesar_archivo_excel
\* ------------------------------------------------------------------------

C51 == <<"5", "1">>
C62 == <<"6", "2">>
C99 == <<"9", "9">>

\* a cell that holds the integer 62
Int62 == <<"int", "6", "2">>

\* str(cell)
StrCelda(v) == IF v # <<>> /\ v[1] = "int" THEN Tail(v) ELSE v

\* lines 224 and 231: str(fila[idx_cuenta]).strip(), '' for an empty cell
CuentaDe(v) == IF v = None THEN <<>> ELSE Strip(StrCelda(v))

\* the codes of the collection puc_embeddings
PucEmbeddings == {C51}

\* buscar_embedding (lines 283-295)
buscar_embedding(puc) == puc \in PucEmbeddings

\* lines 241-265: the document of an account; t stands for datetime.now()
DocumentoPuc(u, cuenta_contable, t) ==
    [UID |-> Oid(u), cuenta_contable |-> cuenta_contable,
     uniquePuc |-> ~buscar_embedding(SubSeq(cuenta_contable, 1, IF Len(cuenta_contable) < 6 THEN Len(cuenta_contable) ELSE 6)),
     createdAt |-> t]

Libro(hoja1, hoja5) ==
    [existe |-> TRUE, tiene_hoja1 |-> TRUE, hoja1 |-> hoja1, hoja5 |-> hoja5]

LibrosT ==
    {SinLibro,
     [existe |-> TRUE, tiene_hoja1 |-> FALSE, hoja1 |-> <<>>, hoja5 |-> TRUE],
     Libro(<<C51, <<" ", "5", "1">>, None, Int62>>, TRUE),
     Libro(<<C62, <<" ">>, C62, C99>>, TRUE),
     Libro(<<>>, FALSE),
     Libro(<<None, C51>>, FALSE)}

\* client_pucs before the first run; createdAt 0 is before every run
ClientPucsT ==
    {<<>>,
     <<DocumentoPuc(O2, C51, 0)>>,
     <<DocumentoPuc(O1, C51, 0), DocumentoPuc(O1, C99, 0)>>,
     <<DocumentoPuc(O1, C99, 0), DocumentoPuc(O2, C62, 0)>>}

\* find_one({"UID": ObjectId(uid_usuario), "cuenta_contable": c}) is truthy
CuentaExistente_Nunca(coll, u, cuenta_contable) == FALSE

CuentaExistente(coll, u, cuenta_contable) ==
    \E i \in 1..Len(coll) :
        coll[i].UID = Oid(u) /\ coll[i].cuenta_contable = cuenta_contable

\* insert_one raises: the store fails, or the unique index on
\* (UID, cuenta_contable) exists and the key is already there
InsertLanza(coll, u, cuenta_contable, indice, falla) ==
    \/ falla = "insert"
    \/ indice /\ \E i \in 1..Len(coll) :
                    coll[i].UID = Oid(u) /\ coll[i].cuenta_contable = cuenta_contable

RECURSIVE FilasXl(_, _, _, _, _, _, _)
\* the loop of lines 222-271 from the k-th cell on. obtener_item reads
\* libro["Hoja5"] without a handler, so a workbook without Hoja5 raises at
\* the first account that is inserted
FilasXl(coll, u, libro, k, t, indice, falla) ==
    IF k > Len(libro.hoja1) THEN [coll |-> coll, salida |-> "ok"]
    ELSE IF CuentaDe(libro.hoja1[k]) = <<>>
    THEN FilasXl(coll, u, libro, k + 1, t, indice, falla)
    ELSE IF CuentaExistente(coll, u, CuentaDe(libro.hoja1[k]))
    THEN FilasXl(coll, u, libro, k + 1, t, indice, falla)
    ELSE IF ~libro.hoja5 \/ InsertLanza(coll, u, CuentaDe(libro.hoja1[k]), indice, falla)
    THEN [coll |-> coll, salida |-> "exit"]
    ELSE FilasXl(Append(coll, DocumentoPuc(u, CuentaDe(libro.hoja1[k]), t)),
                 u, libro, k + 1, t, indice, "ninguna")

\* crear_indices_client_pucs (lines 146-163): the index is there afterwards
\* unless create_index raises, which is only logged
IndiceTras(indice, falla) == indice \/ falla # "indice"

\* lines 202-278 after the file was found; a sys.exit(1) leaves the
\* collection as it is at that point
ProcesarLibro(coll, u, libro, t, indice, falla) ==
    IF u \notin HexValidos \/ falla = "delete"
    THEN [coll |-> coll, salida |-> "exit", indice |-> indice]
    ELSE IF ~libro.tiene_hoja1
    THEN [coll |-> delete_many_UID(coll, Oid(u)), salida |-> "exit",
          indice |-> IndiceTras(indice, falla)]
    ELSE [coll |-> FilasXl(delete_many_UID(coll, Oid(u)), u, libro, 1, t,
                           IndiceTras(indice, falla), falla).coll,
          salida |-> FilasXl(delete_many_UID(coll, Oid(u)), u, libro, 1, t,
                             IndiceTras(indice, falla), falla).salida,
          indice |-> IndiceTras(indice, falla)]

FallasXl == {"ninguna", "delete", "indice", "insert"}

procesar_archivo_excel(uid_usuario, libro, falla) ==
    /\ xl.corridas < MaxCorridas
    /\ IF ~libro.existe
       THEN /\ xl' = [xl EXCEPT !.uid = uid_usuario, !.libro = libro,
                                !.salida = "exit", !.antes = client_pucs,
                                !.corridas = xl.corridas + 1]
            /\ UNCHANGED client_pucs
       ELSE /\ client_pucs' = ProcesarLibro(client_pucs, uid_usuario, libro, xl.corridas + 1, xl.indice, falla).coll
            /\ xl' = [uid |-> uid_usuario, libro |-> libro,
                      salida |-> ProcesarLibro(client_pucs, uid_usuario, libro, xl.corridas + 1, xl.indice, falla).salida,
                      antes |-> client_pucs,
                      indice |-> ProcesarLibro(client_pucs, uid_usuario, libro, xl.corridas + 1, xl.indice, falla).indice,
                      corridas |-> xl.corridas + 1]
    /\ UNCHANGED <<varsProv, varsFact, txt, varsUsr, carrera, act, rz, env_file>>

InitExcel ==
    /\ client_pucs \in ClientPucsT
    /\ xl = SinExcel
    /\ ProvEnReposo
    /\ FactEnReposo
    /\ txt = SinLlamada
    /\ UsrEnReposo
    /\ CarreraEnReposo /\ ActEnReposo /\ RzEnReposo /\ EnvEnReposo

NextExcel ==
    \E uid_usuario \in {O1, O2, ZZ}, libro \in LibrosT, falla \in FallasXl :
        procesar_archivo_excel(uid_usuario, libro, falla)

SpecExcel == InitExcel /\ [][NextExcel]_vars

\* ------------------------------------------------------------------------
\* onboarding_usuario.py: setup_usuario
\* ------------------------------------------------------------------------

\* str(ObjectId): the hexadecimal string, which ObjectId takes back
HexDe(oid) == oid[2]

\* crear_modules (lines 191-239); id_usuario is the str of an ObjectId here
crear_modules(coll, id_usuario) ==
    delete_many_UID(coll, Oid(id_usuario))
        \o <<ModuloDe(id_usuario, "costos"), ModuloDe(id_usuario, "gastos")>>

\* crear_integration (lines 241-271)
crear_integration(coll, id_usuario) ==
    delete_many_UID(coll, Oid(id_usuario)) \o <<IntegracionDe(id_usuario)>>

\* find_one({"UID": uid, "name": name}) of lines 325-326 is truthy
TieneModulo(coll, uid_, name) ==
    \E i \in 1..Len(coll) : coll[i].UID = uid_ /\ coll[i].name = name

\* find_one({"UID": uid}) of line 327 is truthy
TieneIntegracion(coll, uid_) == \E i \in 1..Len(coll) : coll[i].UID = uid_

\* the email of the configuration
EmailsConfig == {EmailA, EmailAMay, EmailMalo}

LlamadaSetup(email, ok, ret) ==
    [SinLlamadaUsr EXCEPT !.fn = "setup_usuario", !.ok = ok, !.ret = ret,
                          !.email = email]

\* lines 317-339: the user exists
SetupExistente(email, usuario) ==
    /\ users' = users
    /\ modules' = IF TieneModulo(modules, usuario._id, "costos") /\ TieneModulo(modules, usuario._id, "gastos")
                  THEN modules
                  ELSE crear_modules(modules, HexDe(usuario._id))
    /\ integrations' = IF TieneIntegracion(integrations, usuario._id)
                       THEN integrations
                       ELSE crear_integration(integrations, HexDe(usuario._id))
    /\ usr' = LlamadaSetup(email, TRUE, HexDe(usuario._id))

\* lines 340-357: the user is created; nuevo is what create_user returns
SetupNuevo(email, nuevo) ==
    /\ users' = Append(users, nuevo)
    /\ modules' = crear_modules(modules, HexDe(nuevo._id))
    /\ integrations' = crear_integration(integrations, HexDe(nuevo._id))
    /\ usr' = LlamadaSetup(email, TRUE, HexDe(nuevo._id))

\* any exception of lines 287-367 ends the process with sys.exit(1)
SetupExit(email) ==
    /\ UNCHANGED <<users, modules, integrations>>
    /\ usr' = LlamadaSetup(email, FALSE, None)

\* setup_usuario (lines 276-380); falla: the connection, or create_user,
\* raises
setup_usuario(email, salt, falla) ==
    /\ llamadas < MaxLlamadas
    /\ IF falla = "conexion" THEN SetupExit(email)
       ELSE IF find_one_email(users, email) # <<>>
       THEN SetupExistente(email, find_one_email(users, email)[1])
       ELSE IF falla = "create_user" \/ ~EmailValido(email)
       THEN SetupExit(email)
       ELSE SetupNuevo(email, User(Oid(<<"n", ToString(llamadas + 1)>>),
                                   UserManagerDe("Ana", email, "300", 1),
                                   hasher_hash("pw", salt)))
    /\ llamadas' = llamadas + 1
    /\ UNCHANGED <<client_puc, varsProv, varsFact, txt, varsMas>>

InitSetup ==
    /\ users \in UsersT
    /\ modules \in ModulesT
    /\ integrations \in IntegrationsT
    /\ client_puc = <<>>
    /\ usr = SinLlamadaUsr
    /\ llamadas = 0
    /\ txt = SinLlamada
    /\ MasEnReposo
    /\ ProvEnReposo
    /\ FactEnReposo

NextSetup ==
    \E email \in EmailsConfig, salt \in {1, 2}, falla \in {"no", "conexion", "create_user"} :
        setup_usuario(email, salt, falla)

SpecSetup == InitSetup /\ [][NextSetup]_vars

\* ------------------------------------------------------------------------
\* Claims settled after the user scripts
\* ------------------------------------------------------------------------

\* the fields that lines 215-236 of subir_proveedores_mongodb.py give a new
\* provider: those copied from the row (comprobante stands for campos_extra)
CamposDeFila ==
    {"id", "UID", "description", "name", "PUC", "defaultPUC", "personType",
     "idType", "cost_center", "accumulated_balance", "comprobante",
     "transactions"}

\* C21 (as claimed): a provider document written by a run carries, besides
\* the fields copied from the row, a generated external identifier.
C21_IdExternoGenerado ==
    \A i \in 1..Len(providers) :
        providers[i] # ProveedorAjeno
            => DOMAIN providers[i] \ CamposDeFila # {}

\* the row that the loop of procesar_y_subir_facturas reads next reaches
\* the call of extraer_descripcion_dian (lines 164-180)
LlamaDian ==
    /\ pcF = "filas" /\ fila_k <= Len(hoja)
    /\ ~FilaOmitida(hoja[fila_k])
    /\ hoja[fila_k].n > COL_ID
    /\ extraer_id_factura(Strip(StrDe(hoja[fila_k].desc)))
          \notin facturas_procesadas

\* C22 (as claimed), for the successive extraer_descripcion_dian calls of
\* one run: when a call unpacks an archive, nothing that the call before it
\* unpacked from another archive is still in the directory.
C22_SinRestosAlExtraer ==
    [][(LlamaDian /\ dian.llamada /\ dian.zip # None
          /\ dian'.zip # None /\ dian'.zip # dian.zip)
          => \A m \in dian.escritos : m \notin DOMAIN facturas_dir]_vars

\* C25 (as claimed): after a run that ended without failure every row of an
\* accepted invoice type has its (UID, invoiceId) in the store.
C25_TodaFilaAceptadaGuardada ==
    (pcF = "idle" /\ salidaF = "ok" /\ ~hubo_falla)
        => \A k \in indice_inicio(hoja)..Len(hoja) :
              ~FilaOmitida(hoja[k])
                 => DocsDe(invoices, uidF, Strip(StrDe(hoja[k].id))) # {}

\* C26 (as claimed): a call of extraer_descripcion_dian leaves every .zip
\* archive of the directory in place and with the content it had.
C26_ArchivosIntactos ==
    [][LlamaDian
          => \A f \in NombresZip(facturas_dir) :
                /\ f \in DOMAIN facturas_dir'
                /\ facturas_dir'[f] = facturas_dir[f]]_vars

\* C23 (as claimed): however two processes interleave their find_one and
\* insert_one steps, when both have finished the invoices collection holds
\* at most one document for each (UID, invoiceId).
C23_UnaPorClaveEnCarrera ==
    (\A p \in {1, 2} : carrera[p].fase = "fin")
        => \A i, j \in 1..Len(invoices) :
              (invoices[i].UID = invoices[j].UID
               /\ invoices[i].invoiceId = invoices[j].invoiceId) => i = j

\* C27 (as claimed): in the statistics that actualizar_proveedores returns
\* every counter is non-negative and updated + failed <= processed <= the
\* number of input records.
C27_EstadisticasCoherentes ==
    (act.pc = "idle" /\ act.corridas > 0)
        => /\ act.estadisticas.proveedores_actualizados_fiscal >= 0
           /\ act.estadisticas.registros_procesados_fiscal >= 0
           /\ act.estadisticas.registros_fallidos_fiscal >= 0
           /\ act.estadisticas.proveedores_actualizados_fiscal
                + act.estadisticas.registros_fallidos_fiscal
                <= act.estadisticas.registros_procesados_fiscal
           /\ act.estadisticas.registros_procesados_fiscal <= Len(act.datos)

\* C24 (as claimed): obtener_numero_factura_pdf never raises, so no run of
\* procesar_archivos_zip is ended by a PDF.
C24_PdfNuncaLanza ==
    rz.pdf # "raise" /\ rz.salida # "raise: pdf"

RECURSIVE LineasDe(_)
\* the lines of a text, without their newlines
LineasDe(s) ==
    IF s = <<>> THEN <<>>
    ELSE IF \A i \in 1..Len(s) : s[i] # NL THEN <<s>>
    ELSE <<SubSeq(s, 1, SetMin({i \in 1..Len(s) : s[i] = NL}) - 1)>>
           \o LineasDe(SubSeq(s, SetMin({i \in 1..Len(s) : s[i] = NL}) + 1, Len(s)))

\* a line that defines the variable UID_USER
DefineUid(linea) == StartsWith(StripLinea(linea), UidUserIgual)

NoDefineUid(linea) == ~DefineUid(linea)

LineasAntes == IF env_file.antes = None THEN <<>> ELSE LineasDe(env_file.antes)

\* C29 (as claimed): after update_uid_in_env(uid) the lines of the file are
\* the lines of the previous file that do not define UID_USER, unchanged
\* and in their order, followed by the single line UID_USER=<uid>.
C29_UnaLineaUidAlFinal ==
    env_file.llamadas > 0 =>
        LineasDe(env_file.contenido)
            = SelectSeq(LineasAntes, NoDefineUid) \o <<UidUserIgual \o env_file.uid>>

\* C29 (second part, as claimed): a second call with the same uid leaves
\* the file as the first call left it.
C29_DosVecesIgual ==
    [][\A uid_ \in UidsEnv :
          (update_uid_in_env(uid_) /\ env_file.llamadas > 0 /\ env_file.uid = uid_)
              => env_file'.contenido = env_file.contenido]_vars

\* the distinct non-empty accounts of the sheet
CuentasDeHoja(hoja1) == {CuentaDe(hoja1[i]) : i \in 1..Len(hoja1)} \ {<<>>}

DelUid(coll, u) == SelectSeq(coll, LAMBDA doc : doc.UID = Oid(u))
DeOtros(coll, u) == SelectSeq(coll, LAMBDA doc : doc.UID # Oid(u))

\* C30: when procesar_archivo_excel completes, client_pucs holds for the
\* given UID exactly one document per distinct non-empty account of the
\* sheet, all of them written by this run, and the documents of the other
\* UIDs are those of before, in their order. The keys depend on the sheet
\* only, so a second run on the same sheet gives the same keys.
C30_UnaPorCuenta ==
    xl.salida = "ok" =>
        /\ {doc.cuenta_contable : doc \in SetDe(DelUid(client_pucs, xl.uid))}
               = CuentasDeHoja(xl.libro.hoja1)
        /\ Len(DelUid(client_pucs, xl.uid)) = Cardinality(CuentasDeHoja(xl.libro.hoja1))
        /\ \A doc \in SetDe(DelUid(client_pucs, xl.uid)) : doc.createdAt = xl.corridas
        /\ DeOtros(client_pucs, xl.uid) = DeOtros(xl.antes, xl.uid)

\* a second run that completes on a sheet with a repeated account and an
\* empty row, for a UID that had documents before it, with documents of
\* another UID in the collection
C30_Witness ==
    /\ xl.salida = "ok"
    /\ xl.corridas = 2
    /\ DelUid(xl.antes, xl.uid) # <<>>
    /\ DeOtros(client_pucs, xl.uid) # <<>>
    /\ Len(xl.libro.hoja1) > Cardinality(CuentasDeHoja(xl.libro.hoja1)) + 1
    /\ \E i \in 1..Len(xl.libro.hoja1) : CuentaDe(xl.libro.hoja1[i]) = <<>>

ConEmail(coll, email) == SelectSeq(coll, LAMBDA doc : doc.email = email)

\* after a setup_usuario that returned: one user has the configured email,
\* with both modules and an integration
UsuarioCompleto(email) ==
    /\ Len(ConEmail(users', email)) = 1
    /\ TieneModulo(modules', ConEmail(users', email)[1]._id, "costos")
    /\ TieneModulo(modules', ConEmail(users', email)[1]._id, "gastos")
    /\ TieneIntegracion(integrations', ConEmail(users', email)[1]._id)

\* the step is a second setup_usuario with the configuration of the
\* call before it, which returned
EsSegundaVez ==
    usr.fn = "setup_usuario" /\ usr.ok /\ usr.email = usr'.email

\* C28 (as claimed): when setup_usuario returns, from a store with at most
\* one user of the configured email, exactly one user has that email, with
\* a costos module, a gastos module and an integration; a second run with
\* the same configuration returns the same UID and creates no document.
C28_SetupIdempotente ==
    [][(usr'.fn = "setup_usuario" /\ usr'.ok /\ llamadas' = llamadas + 1
          /\ Len(ConEmail(users, usr'.email)) <= 1)
        => /\ UsuarioCompleto(usr'.email)
           /\ EsSegundaVez => /\ usr'.ret = usr.ret
                              /\ users' = users
                              /\ modules' = modules
                              /\ integrations' = integrations]_vars

====
